---- MODULE Spec2Model ----
(***************************************************************************)
(* PrintAudit: the page_log parser (printaudit/parser.py) and the usage    *)
(* aggregator (printaudit/analysis/aggregator.py).                         *)
(*                                                                         *)
(* Text is modelled as Python models it: a str is a sequence of            *)
(* characters, each character a one-character TLA+ string.  Python's None  *)
(* is the value None below, which is no str.  Python indexes from 0, TLA+  *)
(* from 1: tokens[0] in the source is tokens[1] here.                      *)
(***************************************************************************)
EXTENDS Integers, Sequences, FiniteSets, TLC

\* ------------------------------------------------------------------ text

\* Names for the characters a TLA+ string literal cannot hold.
DQUOTE == "U+0022"

BACKSLASH == "U+005C"

BACKTICK == "U+0060"

\* The printable ASCII characters in code order: Printable[i] has code 31 + i.
Printable ==
  <<" ", "!", DQUOTE, "#", "$", "%", "&", "'", "(", ")", "*", "+", ",", "-", ".",
    "/", "0", "1", "2", "3", "4", "5", "6", "7", "8", "9", ":", ";", "<",
    "=", ">", "?", "@", "A", "B", "C", "D", "E", "F", "G", "H", "I", "J",
    "K", "L", "M", "N", "O", "P", "Q", "R", "S", "T", "U", "V", "W", "X",
    "Y", "Z", "[", BACKSLASH, "]", "^", "_", BACKTICK, "a", "b", "c", "d", "e", "f",
    "g", "h", "i", "j", "k", "l", "m", "n", "o", "p", "q", "r", "s", "t",
    "u", "v", "w", "x", "y", "z", "{", "|", "}", "~">>

\* U+00B2 SUPERSCRIPT TWO: a character for which str.isdigit() is true and
\* int() raises ValueError.
SUP2 == "U+00B2"

TAB == "\t"

NEWLINE == "\n"

Whitespace == {" ", TAB, NEWLINE}

AsciiDigits == {"0", "1", "2", "3", "4", "5", "6", "7", "8", "9"}

\* The code point of a character.
ord(c) ==
  IF c = TAB THEN 9
  ELSE IF c = NEWLINE THEN 10
  ELSE IF c = SUP2 THEN 178
  ELSE 31 + (CHOOSE i \in 1..Len(Printable) : Printable[i] = c)

lower_char(c) ==
  IF c \in {TAB, SUP2} THEN c
  ELSE IF ord(c) \in 65..90 THEN Printable[ord(c) + 32 - 31] ELSE c

\* str.lower()
lower(s) == [i \in 1..Len(s) |-> lower_char(s[i])]

\* The length of the longest run of characters of Cls in s from position i.
SpanIn(s, i, Cls) ==
  IF i > Len(s) THEN 0 ELSE
  CHOOSE n \in 0..(Len(s) + 1 - i) :
    /\ \A k \in i..(i + n - 1) : s[k] \in Cls
    /\ (i + n > Len(s) \/ s[i + n] \notin Cls)

\* The length of the longest run of characters outside Cls in s from i.
SpanNotIn(s, i, Cls) ==
  IF i > Len(s) THEN 0 ELSE
  CHOOSE n \in 0..(Len(s) + 1 - i) :
    /\ \A k \in i..(i + n - 1) : s[k] \notin Cls
    /\ (i + n > Len(s) \/ s[i + n] \in Cls)

\* str.strip(): leading and trailing whitespace removed.
strip(s) ==
  LET from(lead) ==
        IF lead = Len(s) THEN <<>>
        ELSE SubSeq(s, lead + 1,
                    CHOOSE j \in 1..Len(s) :
                      /\ s[j] \notin Whitespace
                      /\ \A k \in (j + 1)..Len(s) : s[k] \in Whitespace)
  IN  from(SpanIn(s, 1, Whitespace))

\* str.split() with no separator: the maximal runs of non-whitespace.
RECURSIVE split_from(_, _)
split_from(s, i) ==
  LET token(j, n) == <<SubSeq(s, j, j + n - 1)>> \o split_from(s, j + n)
      tokens_at(j) ==
        IF j > Len(s) THEN <<>> ELSE token(j, SpanNotIn(s, j, Whitespace))
  IN  tokens_at(i + SpanIn(s, i, Whitespace))

split(s) == split_from(s, 1)

\* sep.join(parts)
RECURSIVE join(_, _)
join(sep, parts) ==
  IF parts = <<>> THEN <<>>
  ELSE IF Len(parts) = 1 THEN parts[1]
  ELSE parts[1] \o sep \o join(sep, Tail(parts))

\* str.isdigit(): non-empty and every character a digit (Unicode digits
\* such as U+00B2 included).
isdigit(s) == s # <<>> /\ \A k \in 1..Len(s) : s[k] \in AsciiDigits \cup {SUP2}

\* part in whole (substring test)
contains(whole, part) ==
  \E i \in 1..(Len(whole) - Len(part) + 1) :
    SubSeq(whole, i, i + Len(part) - 1) = part

\* whole.startswith(prefix)
startswith(whole, prefix) ==
  Len(prefix) <= Len(whole) /\ SubSeq(whole, 1, Len(prefix)) = prefix

\* a < b for str: lexicographic by code point.
str_lt(a, b) ==
  \E i \in 1..(Len(b)) :
    /\ i <= Len(a) + 1
    /\ \A k \in 1..(i - 1) : a[k] = b[k]
    /\ (i = Len(a) + 1 \/ ord(a[i]) < ord(b[i]))

\* ------------------------------------------------ results and exceptions

\* Python's None, where a str is expected.
None == <<"<None>">>

\* Python's None, where a datetime is expected.
NoneDatetime == [none |-> TRUE]

\* x or y, for x a str or None.
or_else(x, y) == IF x # None /\ x # <<>> THEN x ELSE y

\* A call that returned v.
Ok(v) == [ok |-> TRUE, val |-> v]

\* A call that raised an exception of type exc.
Raise(exc, msg) == [ok |-> FALSE, exc |-> exc, msg |-> msg]

\* ------------------------------------------------------------- numbers

digit_value(c) == ord(c) - 48

RECURSIVE decimal_value(_)
decimal_value(ds) ==
  IF ds = <<>> THEN 0
  ELSE 10 * decimal_value(SubSeq(ds, 1, Len(ds) - 1)) + digit_value(ds[Len(ds)])

\* int(s) for a str: surrounding whitespace, an optional sign, decimal
\* digits with single underscores between them; anything else is a
\* ValueError.
int(s) ==
  LET value(negative, magnitude) ==
        Ok(IF negative THEN 0 - magnitude ELSE magnitude)
      digits(negative, body) ==
        IF ~(/\ body # <<>>
             /\ \A k \in 1..Len(body) :
                  \/ body[k] \in AsciiDigits
                  \/ /\ body[k] = "_"
                     /\ 1 < k /\ k < Len(body)
                     /\ body[k - 1] \in AsciiDigits
                     /\ body[k + 1] \in AsciiDigits)
        THEN Raise("ValueError", "invalid literal for int()")
        ELSE value(negative,
                   decimal_value(SelectSeq(body, LAMBDA c : c \in AsciiDigits)))
      literal(t) ==
        IF t # <<>> /\ t[1] \in {"+", "-"}
        THEN digits(t[1] = "-", Tail(t))
        ELSE digits(FALSE, t)
  IN  literal(strip(s))

\* ------------------------------------------------------------ datetime

\* A datetime with a fixed-offset tzinfo: the wall-clock fields and the UTC
\* offset in minutes.
datetime(y, mo, d, h, mi, sec, off) ==
  [year |-> y, month |-> mo, day |-> d, hour |-> h, minute |-> mi,
   second |-> sec, utcoffset |-> off]

is_leap(y) == y % 4 = 0 /\ (y % 100 # 0 \/ y % 400 = 0)

DaysInMonth == <<31, 28, 31, 30, 31, 30, 31, 31, 30, 31, 30, 31>>

days_in_month(y, m) == IF m = 2 /\ is_leap(y) THEN 29 ELSE DaysInMonth[m]

RECURSIVE days_before_month(_, _)
days_before_month(y, m) ==
  IF m = 1 THEN 0 ELSE days_before_month(y, m - 1) + days_in_month(y, m - 1)

days_before_year(y) ==
  LET p == y - 1 IN p * 365 + (p \div 4) - (p \div 100) + (p \div 400)

\* The proleptic Gregorian ordinal of a date (date.toordinal()).
ymd2ord(y, m, d) == days_before_year(y) + days_before_month(y, m) + d

\* datetime.date(): the calendar date of the wall-clock fields.
date_of(dt) == [year |-> dt.year, month |-> dt.month, day |-> dt.day]

date_lt(a, b) ==
  ymd2ord(a.year, a.month, a.day) < ymd2ord(b.year, b.month, b.day)

\* The minutes since the epoch of the instant in UTC (the seconds are
\* compared apart, to stay within 32-bit arithmetic).
utc_minutes(dt) ==
  (ymd2ord(dt.year, dt.month, dt.day) * 24 + dt.hour) * 60 + dt.minute
    - dt.utcoffset

\* a < b by the wall-clock fields, the UTC offsets left out.
datetime_lt_wall_clock(a, b) ==
  \/ (ymd2ord(a.year, a.month, a.day) * 24 + a.hour) * 60 + a.minute
       < (ymd2ord(b.year, b.month, b.day) * 24 + b.hour) * 60 + b.minute
  \/ /\ (ymd2ord(a.year, a.month, a.day) * 24 + a.hour) * 60 + a.minute
         = (ymd2ord(b.year, b.month, b.day) * 24 + b.hour) * 60 + b.minute
     /\ a.second < b.second

\* a < b for aware datetimes: by instant.
datetime_lt(a, b) ==
  \/ utc_minutes(a) < utc_minutes(b)
  \/ utc_minutes(a) = utc_minutes(b) /\ a.second < b.second

MonthAbbr ==
  << <<"j", "a", "n">>, <<"f", "e", "b">>, <<"m", "a", "r">>,
     <<"a", "p", "r">>, <<"m", "a", "y">>, <<"j", "u", "n">>,
     <<"j", "u", "l">>, <<"a", "u", "g">>, <<"s", "e", "p">>,
     <<"o", "c", "t">>, <<"n", "o", "v">>, <<"d", "e", "c">> >>

\* datetime.strptime(text, DATE_FORMAT) with DATE_FORMAT =
\* "%d/%b/%Y:%H:%M:%S %z", for text in the canonical width of the format
\* (two-digit day, hour, minute, second, four-digit year, [+-]HHMM): a
\* datetime, or ValueError.  Python also accepts one-digit fields and
\* longer %z forms; the model's inputs hold none of those.
strptime(text) ==
  LET digits_at(i, n) == \A k \in i..(i + n - 1) : text[k] \in AsciiDigits
      num(i, n) == decimal_value(SubSeq(text, i, i + n - 1))
      fields(day, month, year, hour, minute, second, offh, offm) ==
        IF \/ year < 1 \/ day < 1 \/ day > days_in_month(year, month)
           \/ hour > 23 \/ minute > 59 \/ second > 59
           \/ offh > 23 \/ offm > 59
        THEN Raise("ValueError", "time data does not match format")
        ELSE Ok(datetime(year, month, day, hour, minute, second,
                         IF text[22] = "-" THEN 0 - (offh * 60 + offm)
                         ELSE offh * 60 + offm))
  IN  IF ~(/\ Len(text) = 26
           /\ digits_at(1, 2) /\ text[3] = "/" /\ text[7] = "/"
           /\ digits_at(8, 4) /\ text[12] = ":"
           /\ digits_at(13, 2) /\ text[15] = ":"
           /\ digits_at(16, 2) /\ text[18] = ":"
           /\ digits_at(19, 2) /\ text[21] = " "
           /\ text[22] \in {"+", "-"} /\ digits_at(23, 4)
           /\ \E m \in 1..12 : MonthAbbr[m] = lower(SubSeq(text, 4, 6)))
      THEN Raise("ValueError", "time data does not match format")
      ELSE fields(num(1, 2),
                  CHOOSE m \in 1..12 : MonthAbbr[m] = lower(SubSeq(text, 4, 6)),
                  num(8, 4), num(13, 2), num(16, 2), num(19, 2),
                  num(23, 2), num(25, 2))

\* n as decimal digits, zero-padded to width w (the %H, %Y, %m, %d of
\* strftime).
RECURSIVE zero_pad(_, _)
zero_pad(n, w) ==
  IF w = 0 THEN <<>>
  ELSE zero_pad(n \div 10, w - 1) \o <<Printable[(n % 10) + 48 - 31]>>

\* ------------------------------------------------------------- parser

\* normalize_optional without its placeholder test: the value is trimmed and
\* kept, "-" and the empty string included.
normalize_optional_keeping(value) == strip(value)

\* normalize_optional
normalize_optional(value) ==
  LET result(stripped) ==
        IF stripped \in {<<>>, <<"-">>} THEN None ELSE stripped
  IN  result(strip(value))

\* normalize_billing
normalize_billing(value) ==
  LET result(normalized) ==
        IF normalized \in {None, <<"-", "n", "o", "n", "e", "-">>} THEN None
        ELSE normalized
  IN  result(normalize_optional(value))

\* normalize_user
normalize_user(user) ==
  LET result(lowered) ==
        IF lowered # <<>> THEN lowered
        ELSE <<"u", "n", "k", "n", "o", "w", "n">>
  IN  result(lower(strip(user)))

\* LINE_HEADER.match(line): the regular expression
\*   ^(\S+)\s+(\S+)\s+(\d+)\s+\[([^\]]+)\]\s+(.+)$
\* Every group but the last is a maximal run (a shorter one is followed by
\* a character of its own class, which the next element refuses); the last
\* \s+ gives one whitespace character back to (.+) when nothing follows it.
\* Below, each name is the position where an element of the pattern starts:
\* s1 the whitespace after the printer, user the user, s2 the whitespace
\* after it, job the job id, s3 the whitespace after it, open the "[",
\* close the "]", rest the first character after the last whitespace run.
LINE_HEADER(line) ==
  LET skip(i, Cls) == i + SpanIn(line, i, Cls)
      skip_not(i, Cls) == i + SpanNotIn(line, i, Cls)
      groups(s1, user, s2, job, s3, open, close, rest) ==
        IF ~(/\ s1 > 1 /\ user > s1 /\ s2 > user /\ job > s2 /\ s3 > job
             /\ open > s3
             /\ open <= Len(line) /\ line[open] = "["
             /\ close > open + 1
             /\ close <= Len(line) /\ line[close] = "]"
             /\ rest > close + 1
             /\ (rest <= Len(line) \/ rest > close + 2))
        THEN [matched |-> FALSE]
        ELSE [matched |-> TRUE,
              printer |-> SubSeq(line, 1, s1 - 1),
              user |-> SubSeq(line, user, s2 - 1),
              job_id |-> SubSeq(line, job, s3 - 1),
              timestamp |-> SubSeq(line, open + 1, close - 1),
              rest |-> IF rest <= Len(line) THEN SubSeq(line, rest, Len(line))
                       ELSE SubSeq(line, Len(line), Len(line))]
      to_close(s1, user, s2, job, s3, open, close) ==
        groups(s1, user, s2, job, s3, open, close,
               skip(close + 1, Whitespace))
      to_open(s1, user, s2, job, s3, open) ==
        to_close(s1, user, s2, job, s3, open, skip_not(open + 1, {"]"}))
      to_s3(s1, user, s2, job, s3) ==
        to_open(s1, user, s2, job, s3, skip(s3, Whitespace))
      to_job(s1, user, s2, job) ==
        to_s3(s1, user, s2, job, skip(job, AsciiDigits))
      to_s2(s1, user, s2) == to_job(s1, user, s2, skip(s2, Whitespace))
      to_user(s1, user) == to_s2(s1, user, skip_not(user, Whitespace))
      to_s1(s1) == to_user(s1, skip(s1, Whitespace))
  IN  to_s1(skip_not(1, Whitespace))

\* tokens[i] of the source (0-based i): the token, or IndexError.
item(tokens, i) ==
  IF i + 1 <= Len(tokens) THEN Ok(tokens[i + 1])
  ELSE Raise("IndexError", "list index out of range")

\* int(tokens[i]) of the source (0-based i).
int_item(tokens, i) ==
  LET converted(token) == IF token.ok THEN int(token.val) ELSE token
  IN  converted(item(tokens, i))

\* A legacy branch that takes a payload of three tokens only.
legacy_payload_exact(tokens) ==
  LET fields(pages, copies, billing) ==
        IF Len(tokens) # 3 THEN Raise("ValueError", "legacy payload too long")
        ELSE IF ~pages.ok THEN pages
        ELSE IF ~copies.ok THEN copies
        ELSE IF ~billing.ok THEN billing
        ELSE Ok([pages |-> pages.val, copies |-> copies.val,
                 billing |-> normalize_billing(billing.val),
                 host |-> None, job_name |-> None, media |-> None,
                 sides |-> None])
  IN  fields(int_item(tokens, 0), int_item(tokens, 1), item(tokens, 2))

\* _parse_rest, legacy branch after its length check (lines 125-128).
legacy_payload(tokens) ==
  LET fields(pages, copies, billing) ==
        IF ~pages.ok THEN pages
        ELSE IF ~copies.ok THEN copies
        ELSE IF ~billing.ok THEN billing
        ELSE Ok([pages |-> pages.val, copies |-> copies.val,
                 billing |-> normalize_billing(billing.val),
                 host |-> None, job_name |-> None, media |-> None,
                 sides |-> None])
  IN  fields(int_item(tokens, 0), int_item(tokens, 1), item(tokens, 2))

\* A default branch that takes the first token after the host as the whole
\* job name.
default_payload_one_word(tokens) ==
  LET job_name_of(job_name_tokens) ==
        IF job_name_tokens # <<>>
        THEN normalize_optional(join(<<" ">>, job_name_tokens))
        ELSE None
      fields(pages, billing, remaining) ==
        IF ~pages.ok THEN pages
        ELSE IF ~billing.ok THEN billing
        ELSE IF Len(remaining) < 3
          THEN Raise("ValueError",
                     "default payload missing host/job/media info")
        ELSE Ok([pages |-> pages.val, copies |-> 1,
                 billing |-> normalize_billing(billing.val),
                 host |-> normalize_optional(remaining[1]),
                 job_name |->
                   job_name_of(IF Len(remaining) > 3 THEN <<remaining[2]>>
                               ELSE <<>>),
                 media |-> normalize_optional(remaining[Len(remaining) - 1]),
                 sides |-> normalize_optional(remaining[Len(remaining)])])
  IN  fields(int_item(tokens, 1), item(tokens, 2),
             SubSeq(tokens, 4, Len(tokens)))

\* _parse_rest, default CUPS branch after its first length check
\* (lines 137-153).  remaining[-2], remaining[-1] and remaining[1:-2] are
\* read after the test that remaining holds three tokens.
default_payload(tokens) ==
  LET job_name_of(job_name_tokens) ==
        IF job_name_tokens # <<>>
        THEN normalize_optional(join(<<" ">>, job_name_tokens))
        ELSE None
      fields(pages, billing, remaining) ==
        IF ~pages.ok THEN pages
        ELSE IF ~billing.ok THEN billing
        ELSE IF Len(remaining) < 3
          THEN Raise("ValueError",
                     "default payload missing host/job/media info")
        ELSE Ok([pages |-> pages.val, copies |-> 1,
                 billing |-> normalize_billing(billing.val),
                 host |-> normalize_optional(remaining[1]),
                 job_name |->
                   job_name_of(SubSeq(remaining, 2, Len(remaining) - 2)),
                 media |-> normalize_optional(remaining[Len(remaining) - 1]),
                 sides |-> normalize_optional(remaining[Len(remaining)])])
  IN  fields(int_item(tokens, 1), item(tokens, 2),
             SubSeq(tokens, 4, Len(tokens)))

\* _parse_rest without its token-count tests (lines 123-124 and 134-135):
\* a short payload reaches the reads of tokens[2].
_parse_rest_unguarded(rest) ==
  LET payload(tokens) ==
        IF tokens = <<>> THEN Raise("ValueError", "missing tokens in payload")
        ELSE IF isdigit(tokens[1]) THEN legacy_payload(tokens)
        ELSE IF lower(tokens[1]) \notin
                  {<<"t", "o", "t", "a", "l">>, <<"p", "a", "g", "e">>}
          THEN Raise("ValueError", "unknown keyword")
        ELSE default_payload(tokens)
  IN  IF rest = <<>> THEN Raise("ValueError", "missing data payload")
      ELSE payload(split(rest))

\* _parse_rest
_parse_rest(rest) ==
  LET payload(tokens) ==
        IF tokens = <<>> THEN Raise("ValueError", "missing tokens in payload")
        ELSE IF isdigit(tokens[1])
          THEN IF Len(tokens) < 3
                 THEN Raise("ValueError", "legacy payload too short")
               ELSE legacy_payload(tokens)
        ELSE IF lower(tokens[1]) \notin
                  {<<"t", "o", "t", "a", "l">>, <<"p", "a", "g", "e">>}
          THEN Raise("ValueError", "unknown keyword")
        ELSE IF Len(tokens) < 4
          THEN Raise("ValueError", "default payload too short")
        ELSE default_payload(tokens)
  IN  IF rest = <<>> THEN Raise("ValueError", "missing data payload")
      ELSE payload(split(rest))

\* parse_line: a LogEntry, or the exception raised.
parse_line(line) ==
  LET entry(match, job_id, timestamp, payload) ==
        IF ~payload.ok THEN payload
        ELSE Ok([printer |-> match.printer,
                 user |-> normalize_user(match.user),
                 job_id |-> job_id.val,
                 timestamp |-> timestamp.val,
                 pages |-> payload.val.pages,
                 copies |-> payload.val.copies,
                 billing_code |-> payload.val.billing,
                 host |-> payload.val.host,
                 job_name |-> payload.val.job_name,
                 media |-> payload.val.media,
                 sides |-> payload.val.sides,
                 raw |-> line])
      with_timestamp(match, job_id, timestamp) ==
        IF ~timestamp.ok THEN timestamp
        ELSE entry(match, job_id, timestamp, _parse_rest(match.rest))
      with_job_id(match, job_id) ==
        IF ~job_id.ok THEN job_id
        ELSE with_timestamp(match, job_id, strptime(match.timestamp))
      with_match(match) ==
        IF ~match.matched THEN Raise("ValueError", "unrecognized header")
        ELSE with_job_id(match, int(match.job_id))
  IN  with_match(LINE_HEADER(line))

\* ---------------------------------------------------------- containers

\* A dict (a Counter, a defaultdict) is the sequence of its <<key, value>>
\* items in insertion order, which is the order Python iterates it in.
has_key(d, k) == \E i \in 1..Len(d) : d[i][1] = k

index_of(d, k) == CHOOSE i \in 1..Len(d) : d[i][1] = k

keys(d) == [i \in 1..Len(d) |-> d[i][1]]

\* Counter.__getitem__: a missing key reads as 0 and is not inserted.
count_of(c, k) == IF has_key(c, k) THEN c[index_of(c, k)][2] ELSE 0

\* counter[k] = v: the count replaced, not added to.
counter_add_replacing(c, k, v) ==
  IF has_key(c, k)
  THEN [i \in 1..Len(c) |-> IF c[i][1] = k THEN <<k, v>> ELSE c[i]]
  ELSE Append(c, <<k, v>>)

\* counter.setdefault(k, v): the count of a key already held is kept.
counter_add_first(c, k, v) == IF has_key(c, k) THEN c ELSE Append(c, <<k, v>>)

\* counter[k] += v
counter_add(c, k, v) ==
  IF has_key(c, k)
  THEN [i \in 1..Len(c) |-> IF c[i][1] = k THEN <<k, c[i][2] + v>> ELSE c[i]]
  ELSE Append(c, <<k, v>>)

\* defaultdict(Counter).__getitem__: a missing key is inserted with an
\* empty Counter.  The dict after the read ...
defaultdict_touch(d, k) == IF has_key(d, k) THEN d ELSE Append(d, <<k, <<>>>>)

\* ... and the Counter read.
defaultdict_get(d, k) == IF has_key(d, k) THEN d[index_of(d, k)][2] ELSE <<>>

\* The nested maps left unwritten: ingest without its lines 207-208.
nested_add_skipped(d, k, inner, v) == d

\* defaultdict[k][inner] += v
nested_add(d, k, inner, v) ==
  LET updated(touched) ==
        [i \in 1..Len(touched) |->
           IF touched[i][1] = k
           THEN <<k, counter_add(touched[i][2], inner, v)>>
           ELSE touched[i]]
  IN  updated(defaultdict_touch(d, k))

\* sorted(items, key=...): a stable sort.  before[i][j] is
\* key(items[i]) < key(items[j]).
sorted(items, before) ==
  LET n == Len(items)
      rank(i) ==
        Cardinality({j \in 1..n :
          \/ before[j][i]
          \/ (~before[i][j] /\ j < i)})
  IN  [p \in 1..n |-> items[CHOOSE i \in 1..n : rank(i) = p - 1]]

\* Counter.most_common(): the items by descending count, equal counts in
\* insertion order.
most_common(c) ==
  sorted(c, [i \in 1..Len(c) |-> [j \in 1..Len(c) |-> c[i][2] > c[j][2]]])

\* sorted(strs): ascending, by code point.
sorted_strs(strs) ==
  sorted(strs, [i \in 1..Len(strs) |->
                 [j \in 1..Len(strs) |-> str_lt(strs[i], strs[j])]])

\* sum(values)
RECURSIVE sum_values(_)
sum_values(c) == IF c = <<>> THEN 0 ELSE c[1][2] + sum_values(Tail(c))

\* round(num / den, 2) for den > 0, in hundredths: the quotient
\* 100 * num / den rounded to an integer, ties to even.
round2(num, den) ==
  LET n == 100 * num
      q == n \div den
      r == n % den
  IN  IF 2 * r < den THEN q
      ELSE IF 2 * r > den THEN q + 1
      ELSE IF q % 2 = 0 THEN q ELSE q + 1

max(a, b) == IF a >= b THEN a ELSE b

\* --------------------------------------------------------- aggregator

S_unknown == <<"u", "n", "k", "n", "o", "w", "n">>

S_unassigned == <<"u", "n", "a", "s", "s", "i", "g", "n", "e", "d">>

S_other == <<"o", "t", "h", "e", "r">>

\* An int | None of the bucket tables: Some(n), or NoneInt for None.
Some(n) == <<n>>

NoneInt == <<>>

\* str(n) for n >= 0
RECURSIVE str_of(_)
str_of(n) ==
  IF n < 10 THEN <<Printable[n + 48 - 31]>>
  ELSE str_of(n \div 10) \o <<Printable[(n % 10) + 48 - 31]>>

\* JOB_BUCKETS: (low, high, label); a high of None is the open end.
JOB_BUCKETS ==
  << <<Some(0), Some(10), <<"0", "-", "1", "0">>>>,
     <<Some(11), Some(20), <<"1", "1", "-", "2", "0">>>>,
     <<Some(21), Some(30), <<"2", "1", "-", "3", "0">>>>,
     <<Some(31), Some(40), <<"3", "1", "-", "4", "0">>>>,
     <<Some(41), Some(50), <<"4", "1", "-", "5", "0">>>>,
     <<Some(51), Some(100), <<"5", "1", "-", "1", "0", "0">>>>,
     <<Some(101), Some(200), <<"1", "0", "1", "-", "2", "0", "0">>>>,
     <<Some(201), NoneInt, <<"2", "0", "0", "+">>>> >>

\* COPY_BUCKETS
COPY_BUCKETS ==
  << <<Some(1), Some(1), <<"1">>>>,
     <<Some(2), Some(2), <<"2">>>>,
     <<Some(3), Some(3), <<"3">>>>,
     <<Some(4), Some(4), <<"4">>>>,
     <<Some(5), Some(10), <<"5", "-", "1", "0">>>>,
     <<Some(11), Some(20), <<"1", "1", "-", "2", "0">>>>,
     <<Some(21), Some(30), <<"2", "1", "-", "3", "0">>>>,
     <<Some(31), Some(40), <<"3", "1", "-", "4", "0">>>>,
     <<Some(41), Some(50), <<"4", "1", "-", "5", "0">>>>,
     <<Some(51), Some(100), <<"5", "1", "-", "1", "0", "0">>>>,
     <<Some(101), NoneInt, <<"1", "0", "0", "+">>>> >>

\* UsageAggregator._bucketize: the label of the first bucket holding value;
\* with none, ">" and the last bucket's upper bound, or "other" when the
\* last bucket is open-ended.
_bucketize(value, buckets) ==
  LET holds(b) ==
        /\ ~(b[1] # NoneInt /\ value < b[1][1])
        /\ ~(b[2] # NoneInt /\ value > b[2][1])
  IN  IF \E i \in 1..Len(buckets) : holds(buckets[i])
      THEN buckets[CHOOSE i \in 1..Len(buckets) :
                     /\ holds(buckets[i])
                     /\ \A j \in 1..(i - 1) : ~holds(buckets[j])][3]
      ELSE IF buckets # <<>> /\ buckets[Len(buckets)][2] # NoneInt
                             /\ buckets[Len(buckets)][2] # Some(0)
      THEN <<">">> \o str_of(buckets[Len(buckets)][2][1])
      ELSE S_other

\* raw.split(delim)
RECURSIVE split_on(_, _)
split_on(raw, delim) ==
  IF \E i \in 1..Len(raw) : raw[i] = delim
  THEN LET i == CHOOSE i \in 1..Len(raw) :
                  raw[i] = delim /\ \A j \in 1..(i - 1) : raw[j] # delim
       IN  <<SubSeq(raw, 1, i - 1)>> \o split_on(SubSeq(raw, i + 1, Len(raw)), delim)
  ELSE <<raw>>

\* [subtoken for token in tokens for subtoken in token.split(delim)]
RECURSIVE split_each(_, _)
split_each(tokens, delim) ==
  IF tokens = <<>> THEN <<>>
  ELSE split_on(tokens[1], delim) \o split_each(Tail(tokens), delim)

\* re_splitter
re_splitter(raw) == split_each(split_each(split_each(<<raw>>, ","), "|"), ";")

\* _infer_billing with the rules tried from the last to the first.
_infer_billing_last_match(self, entry) ==
  LET cleaned(parts) == [i \in 1..Len(parts) |-> lower(strip(parts[i]))]
      tokens_of(raw_tokens) ==
        cleaned(SelectSeq(re_splitter(raw_tokens),
                          LAMBDA token : strip(token) # <<>>))
      any_in(tokens, haystack) ==
        \E i \in 1..Len(tokens) : contains(haystack, tokens[i])
      last_match(haystack) ==
        IF \E r \in 1..Len(self.cost_rules) :
             any_in(tokens_of(self.cost_rules[r][2]), haystack)
        THEN self.cost_rules[CHOOSE r \in 1..Len(self.cost_rules) :
               /\ any_in(tokens_of(self.cost_rules[r][2]), haystack)
               /\ \A q \in (r + 1)..Len(self.cost_rules) :
                    ~any_in(tokens_of(self.cost_rules[q][2]), haystack)][1]
        ELSE None
  IN  IF self.cost_rules = <<>> THEN None
      ELSE last_match(
             lower(join(<<" ">>,
               SelectSeq(<<entry.printer, entry.user,
                           or_else(entry.job_name, <<>>),
                           or_else(entry.host, <<>>)>>,
                         LAMBDA part : part # <<>>))))

\* _infer_billing without its test `if token.strip()`: the empty tokens of
\* a rule are kept.
_infer_billing_blank_tokens(self, entry) ==
  LET cleaned(parts) == [i \in 1..Len(parts) |-> lower(strip(parts[i]))]
      tokens_of(raw_tokens) ==
        cleaned(re_splitter(raw_tokens))
      any_in(tokens, haystack) ==
        \E i \in 1..Len(tokens) : contains(haystack, tokens[i])
      first_match(haystack) ==
        IF \E r \in 1..Len(self.cost_rules) :
             any_in(tokens_of(self.cost_rules[r][2]), haystack)
        THEN self.cost_rules[CHOOSE r \in 1..Len(self.cost_rules) :
               /\ any_in(tokens_of(self.cost_rules[r][2]), haystack)
               /\ \A q \in 1..(r - 1) :
                    ~any_in(tokens_of(self.cost_rules[q][2]), haystack)][1]
        ELSE None
  IN  IF self.cost_rules = <<>> THEN None
      ELSE first_match(
             lower(join(<<" ">>,
               SelectSeq(<<entry.printer, entry.user,
                           or_else(entry.job_name, <<>>),
                           or_else(entry.host, <<>>)>>,
                         LAMBDA part : part # <<>>))))

\* UsageAggregator._infer_billing: the label of the first rule, in the
\* order of the cost_rules dict, one of whose tokens is in the haystack.
_infer_billing(self, entry) ==
  LET cleaned(parts) == [i \in 1..Len(parts) |-> lower(strip(parts[i]))]
      tokens_of(raw_tokens) ==
        cleaned(SelectSeq(re_splitter(raw_tokens),
                          LAMBDA token : strip(token) # <<>>))
      any_in(tokens, haystack) ==
        \E i \in 1..Len(tokens) : contains(haystack, tokens[i])
      first_match(haystack) ==
        IF \E r \in 1..Len(self.cost_rules) :
             any_in(tokens_of(self.cost_rules[r][2]), haystack)
        THEN self.cost_rules[CHOOSE r \in 1..Len(self.cost_rules) :
               /\ any_in(tokens_of(self.cost_rules[r][2]), haystack)
               /\ \A q \in 1..(r - 1) :
                    ~any_in(tokens_of(self.cost_rules[q][2]), haystack)][1]
        ELSE None
  IN  IF self.cost_rules = <<>> THEN None
      ELSE first_match(
             lower(join(<<" ">>,
               SelectSeq(<<entry.printer, entry.user,
                           or_else(entry.job_name, <<>>),
                           or_else(entry.host, <<>>)>>,
                         LAMBDA part : part # <<>>))))

\* name.rsplit(".", 1)[-1]: what follows the last "."
after_last_dot(name) ==
  LET i == CHOOSE i \in 1..Len(name) :
             name[i] = "." /\ \A j \in (i + 1)..Len(name) : name[j] # "."
  IN  SubSeq(name, i + 1, Len(name))

COMMON_EXTENSIONS ==
  { <<"p", "d", "f">>, <<"d", "o", "c">>, <<"d", "o", "c", "x">>,
    <<"o", "d", "t">>, <<"r", "t", "f">>, <<"t", "x", "t">>,
    <<"p", "a", "g", "e", "s">>, <<"x", "l", "s">>, <<"x", "l", "s", "x">>,
    <<"x", "l", "s", "m">>, <<"c", "s", "v">>, <<"o", "d", "s">>,
    <<"n", "u", "m", "b", "e", "r", "s">>, <<"p", "p", "t">>,
    <<"p", "p", "t", "x">>, <<"o", "d", "p">>, <<"k", "e", "y">>,
    <<"j", "p", "g">>, <<"j", "p", "e", "g">>, <<"p", "n", "g">>,
    <<"g", "i", "f">>, <<"b", "m", "p">>, <<"t", "i", "f", "f">>,
    <<"t", "i", "f">>, <<"s", "v", "g">>, <<"f", "r", "x">>,
    <<"r", "p", "t">>, <<"m", "r", "t">>, <<"r", "e", "p">>,
    <<"h", "t", "m", "l">>, <<"h", "t", "m">>, <<"x", "m", "l">>,
    <<"j", "s", "o", "n">>, <<"l", "o", "g">>, <<"p", "s">>,
    <<"e", "p", "s">>, <<"p", "r", "n">>, <<"c", "g", "i">>,
    <<"m", "d">>, <<"t", "e", "x">> }

\* _document_extension without the test for a name that has no dot.
_document_extension_undotted(name) ==
  LET known(ext) == IF ext \notin COMMON_EXTENSIONS THEN S_unknown ELSE ext
  IN  IF name = None \/ name = <<>> \/ name = S_unknown THEN S_unknown
      ELSE IF ~contains(lower(name), <<".">>) THEN lower(name)
      ELSE known(after_last_dot(lower(name)))

\* _document_extension
_document_extension(name) ==
  LET known(ext) == IF ext \notin COMMON_EXTENSIONS THEN S_unknown ELSE ext
  IN  IF name = None \/ name = <<>> \/ name = S_unknown THEN S_unknown
      ELSE IF ~contains(lower(name), <<".">>) THEN S_unknown
      ELSE known(after_last_dot(lower(name)))

\* normalize_duplex
normalize_duplex(sides) ==
  LET result(normalized) ==
        IF startswith(normalized,
                      <<"t", "w", "o", "-", "s", "i", "d", "e", "d">>)
          THEN <<"d", "u", "p", "l", "e", "x">>
        ELSE IF normalized \in
                  {<<"o", "n", "e", "-", "s", "i", "d", "e", "d">>,
                   <<"s", "i", "m", "p", "l", "e", "x">>}
          THEN <<"s", "i", "m", "p", "l", "e", "x">>
        ELSE normalized
  IN  IF sides = None \/ sides = <<>> THEN S_unknown
      ELSE result(lower(sides))

\* UsageAggregator.__init__: the aggregator object built from its arguments.
\* The dict arguments are sequences of <<key, value>> items.
UsageAggregator(cost_rules, work_start, work_end, cost_default, cost_printer_rates, cost_label_rates) ==
  [totals |-> [requests |-> 0, pages |-> 0,
               first_event |-> NoneDatetime, last_event |-> NoneDatetime],
   queue_requests |-> <<>>, queue_pages |-> <<>>, queue_user_pages |-> <<>>,
   user_requests |-> <<>>, user_pages |-> <<>>,
   hourly |-> <<>>, hourly_pages |-> <<>>, daily |-> <<>>, daily_pages |-> <<>>,
   job_histogram |-> <<>>, copy_histogram |-> <<>>,
   cost_pages |-> <<>>, cost_user_pages |-> <<>>, cost_queue_pages |-> <<>>,
   client_pages |-> <<>>, document_pages |-> <<>>,
   media_pages |-> <<>>, duplex_pages |-> <<>>,
   cost_rules |-> cost_rules, work_start |-> work_start, work_end |-> work_end,
   cost_default |-> cost_default,
   cost_printer_rates |-> cost_printer_rates,
   cost_label_rates |-> cost_label_rates]

\* The cost label with the operands of line 204 exchanged: the inferred
\* label first, the entry's billing code when no rule matches.
cost_label_rules_first(self, entry) ==
  or_else(or_else(_infer_billing(self, entry), entry.billing_code),
          S_unassigned)

\* The cost label ingest accumulates an entry under (lines 204-205).
cost_label(self, entry) ==
  or_else(IF entry.billing_code # None /\ entry.billing_code # <<>>
          THEN entry.billing_code
          ELSE _infer_billing(self, entry),
          S_unassigned)

\* UsageAggregator.ingest: the aggregator after ingest(entry).
ingest(self, entry) ==
  LET tallied(ts, hour_key, day_key, label) ==
    [self EXCEPT
      !.totals = [requests |-> @.requests + 1,
                  pages |-> @.pages + entry.pages,
                  first_event |->
                    IF @.first_event = NoneDatetime
                         \/ datetime_lt(ts, @.first_event)
                    THEN ts ELSE @.first_event,
                  last_event |->
                    IF @.last_event = NoneDatetime
                         \/ datetime_lt(@.last_event, ts)
                    THEN ts ELSE @.last_event],
      !.queue_requests = counter_add(@, entry.printer, 1),
      !.queue_pages = counter_add(@, entry.printer, entry.pages),
      !.queue_user_pages =
         counter_add(@, <<entry.printer, entry.user>>, entry.pages),
      !.user_requests = counter_add(@, entry.user, 1),
      !.user_pages = counter_add(@, entry.user, entry.pages),
      !.hourly = counter_add(@, hour_key, 1),
      !.hourly_pages = counter_add(@, hour_key, entry.pages),
      !.daily = counter_add(@, day_key, 1),
      !.daily_pages = counter_add(@, day_key, entry.pages),
      !.job_histogram =
         counter_add(@, _bucketize(entry.pages, JOB_BUCKETS), 1),
      !.copy_histogram =
         counter_add(@, _bucketize(entry.copies, COPY_BUCKETS), 1),
      !.cost_pages = counter_add(@, label, entry.pages),
      !.cost_user_pages = nested_add(@, label, entry.user, entry.pages),
      !.cost_queue_pages = nested_add(@, label, entry.printer, entry.pages),
      !.client_pages =
         counter_add(@, or_else(entry.host, S_unknown), entry.pages),
      !.document_pages =
         counter_add(@, _document_extension(entry.job_name), entry.pages),
      !.media_pages =
         counter_add(@, or_else(entry.media, S_unknown), entry.pages),
      !.duplex_pages =
         counter_add(@, normalize_duplex(entry.sides), entry.pages)]
  IN  tallied(entry.timestamp,
              zero_pad(entry.timestamp.hour, 2) \o <<":", "0", "0">>,
              zero_pad(entry.timestamp.year, 4) \o <<"-">>
                \o zero_pad(entry.timestamp.month, 2) \o <<"-">>
                \o zero_pad(entry.timestamp.day, 2),
              cost_label(self, entry))

\* ------------------------------------------------------ report derivation

\* Percentages and ratios are held in hundredths (12.5 is 1250): round(x, 2)
\* by round2.  Rates and amounts are held in thousandths of the currency
\* unit, where the source holds floats.

\* _build_queue_stats over queue_pages.items() in place of most_common():
\* the queues in insertion order.
_build_queue_stats_unordered(self) ==
  LET stat(queue, pages, requests) ==
        [queue |-> queue,
         requests_pct |-> round2(100 * requests, max(self.totals.requests, 1)),
         pages_pct |-> round2(100 * pages, max(self.totals.pages, 1)),
         requests |-> requests,
         pages |-> pages]
  IN  [i \in 1..Len(self.queue_pages) |->
        stat(self.queue_pages[i][1], self.queue_pages[i][2],
             count_of(self.queue_requests, self.queue_pages[i][1]))]

\* UsageAggregator._build_queue_stats
_build_queue_stats(self) ==
  LET stat(queue, pages, requests) ==
        [queue |-> queue,
         requests_pct |-> round2(100 * requests, max(self.totals.requests, 1)),
         pages_pct |-> round2(100 * pages, max(self.totals.pages, 1)),
         requests |-> requests,
         pages |-> pages]
      stats(items) ==
        [i \in 1..Len(items) |->
          stat(items[i][1], items[i][2],
               count_of(self.queue_requests, items[i][1]))]
  IN  stats(most_common(self.queue_pages))

\* UsageAggregator._build_user_stats
_build_user_stats(self) ==
  LET stat(user, pages, requests) ==
        [user |-> user,
         requests |-> requests,
         pages |-> pages,
         pages_per_request |->
           IF requests # 0 THEN round2(pages, requests) ELSE 0]
      stats(items) ==
        [i \in 1..Len(items) |->
          stat(items[i][1], items[i][2],
               count_of(self.user_requests, items[i][1]))]
  IN  stats(most_common(self.user_pages))

\* _build_bucket_section without its sort: the buckets in the order the
\* histogram holds them.
_build_bucket_section_unsorted(histogram) ==
  LET section(total) ==
        [i \in 1..Len(histogram) |->
          [label |-> histogram[i][1],
           pct_requests |-> round2(100 * histogram[i][2], total),
           request_count |-> histogram[i][2]]]
  IN  IF histogram = <<>> THEN <<>> ELSE section(sum_values(histogram))

\* UsageAggregator._build_bucket_section
_build_bucket_section(histogram) ==
  LET by_label(result) ==
        sorted(result, [i \in 1..Len(result) |->
                         [j \in 1..Len(result) |->
                           str_lt(result[i].label, result[j].label)]])
      section(total) ==
        by_label([i \in 1..Len(histogram) |->
                   [label |-> histogram[i][1],
                    pct_requests |-> round2(100 * histogram[i][2], total),
                    request_count |-> histogram[i][2]]])
  IN  IF histogram = <<>> THEN <<>> ELSE section(sum_values(histogram))

\* _resolve_rate with the label and the queue looked up as they are.
_resolve_rate_exact(self, label, queue) ==
  IF has_key(self.cost_label_rates, label)
    THEN count_of(self.cost_label_rates, label)
  ELSE IF has_key(self.cost_printer_rates, queue)
    THEN count_of(self.cost_printer_rates, queue)
  ELSE self.cost_default

\* UsageAggregator._resolve_rate
_resolve_rate(self, label, queue) ==
  IF has_key(self.cost_label_rates, lower(label))
    THEN count_of(self.cost_label_rates, lower(label))
  ELSE IF has_key(self.cost_printer_rates, lower(queue))
    THEN count_of(self.cost_printer_rates, lower(queue))
  ELSE self.cost_default

\* _top_items: counter.most_common(limit)
_top_items(counter, limit) ==
  SubSeq(most_common(counter), 1,
         IF Len(counter) < limit THEN Len(counter) ELSE limit)

\* Whether _build_cost_stats computes amounts (lines 334-338).
rates_configured(self) ==
  \/ self.cost_default # 0
  \/ self.cost_printer_rates # <<>>
  \/ self.cost_label_rates # <<>>

\* _build_cost_stats with the default rate for every queue, in place of
\* the rate _resolve_rate gives.
_build_cost_stats_default_rate(self) ==
  LET stat(label, pages) ==
        [label |-> label,
         pages |-> pages,
         per_user |->
           _top_items(defaultdict_get(self.cost_user_pages, label), 5),
         per_queue |->
           _top_items(defaultdict_get(self.cost_queue_pages, label), 5),
         amount |-> IF rates_configured(self)
                    THEN sum_values(defaultdict_get(self.cost_queue_pages, label))
                           * self.cost_default
                    ELSE 0]
      stats(items) == [i \in 1..Len(items) |-> stat(items[i][1], items[i][2])]
  IN  stats(most_common(self.cost_pages))

\* UsageAggregator._build_cost_stats: the list it returns.
_build_cost_stats(self) ==
  LET RECURSIVE amount_of(_, _)
      amount_of(label, queue_pages) ==
        IF queue_pages = <<>> THEN 0
        ELSE queue_pages[1][2] * _resolve_rate(self, label, queue_pages[1][1])
               + amount_of(label, Tail(queue_pages))
      stat(label, pages) ==
        [label |-> label,
         pages |-> pages,
         per_user |->
           _top_items(defaultdict_get(self.cost_user_pages, label), 5),
         per_queue |->
           _top_items(defaultdict_get(self.cost_queue_pages, label), 5),
         amount |-> IF rates_configured(self)
                    THEN amount_of(label,
                           defaultdict_get(self.cost_queue_pages, label))
                    ELSE 0]
      stats(items) == [i \in 1..Len(items) |-> stat(items[i][1], items[i][2])]
  IN  stats(most_common(self.cost_pages))

\* The defaultdict d after d[label] was read for every label of labels.
RECURSIVE touch_all(_, _)
touch_all(d, labels) ==
  IF labels = <<>> THEN d
  ELSE touch_all(defaultdict_touch(d, labels[1]), Tail(labels))

\* UsageAggregator._build_cost_stats: the aggregator it leaves.  Reading
\* self.cost_user_pages[label] and self.cost_queue_pages[label] (lines 339,
\* 347, 348) inserts the labels those defaultdicts do not hold yet.
after_build_cost_stats(self) ==
  LET touched(labels) ==
        [self EXCEPT !.cost_user_pages = touch_all(@, labels),
                     !.cost_queue_pages = touch_all(@, labels)]
  IN  touched(keys(most_common(self.cost_pages)))

\* UsageAggregator._simple_stats
_simple_stats(counter) ==
  LET stats(items) ==
        [i \in 1..Len(items) |-> [label |-> items[i][1], pages |-> items[i][2]]]
  IN  stats(most_common(counter))

\* None, where a bool is expected.
NoneBool == "None"

\* The totals field of a report: build_report stores the aggregator's own
\* Totals object (totals = self.totals), not a copy of it.
TotalsRef == "self.totals"

\* A build_report whose queue_user_stats are sorted by descending pages
\* alone.
build_report_by_pages(self) ==
  LET queue_user_stats(rows) ==
        sorted(rows, [i \in 1..Len(rows) |-> [j \in 1..Len(rows) |->
          rows[i].pages > rows[j].pages]])
      hour_bucket(hour, hour_int) ==
        [key |-> hour,
         requests |-> count_of(self.hourly, hour),
         pages |-> count_of(self.hourly_pages, hour),
         within_hours |-> (self.work_start <= hour_int
                             /\ hour_int <= self.work_end)]
      hourly(hours) ==
        [i \in 1..Len(hours) |->
          hour_bucket(hours[i], int(split_on(hours[i], ":")[1]).val)]
      daily(days) ==
        [i \in 1..Len(days) |->
          [key |-> days[i],
           requests |-> count_of(self.daily, days[i]),
           pages |-> count_of(self.daily_pages, days[i]),
           within_hours |-> NoneBool]]
  IN  [totals |-> TotalsRef,
       queue_stats |-> _build_queue_stats(self),
       queue_user_stats |->
         queue_user_stats([i \in 1..Len(self.queue_user_pages) |->
                            [queue |-> self.queue_user_pages[i][1][1],
                             user |-> self.queue_user_pages[i][1][2],
                             pages |-> self.queue_user_pages[i][2]]]),
       user_stats |-> _build_user_stats(self),
       hourly |-> hourly(sorted_strs(keys(self.hourly))),
       daily |-> daily(sorted_strs(keys(self.daily))),
       job_buckets |-> _build_bucket_section(self.job_histogram),
       copy_buckets |-> _build_bucket_section(self.copy_histogram),
       cost_stats |-> _build_cost_stats(self),
       client_stats |-> _simple_stats(self.client_pages),
       document_types |-> _simple_stats(self.document_pages),
       media_stats |-> _simple_stats(self.media_pages),
       duplex_stats |-> _simple_stats(self.duplex_pages)]

\* A build_report whose work hours end before the hour work_end.
build_report_until_work_end(self) ==
  LET queue_user_stats(rows) ==
        sorted(rows, [i \in 1..Len(rows) |-> [j \in 1..Len(rows) |->
          \/ rows[i].pages > rows[j].pages
          \/ rows[i].pages = rows[j].pages
               /\ str_lt(rows[i].queue, rows[j].queue)
          \/ rows[i].pages = rows[j].pages /\ rows[i].queue = rows[j].queue
               /\ str_lt(rows[i].user, rows[j].user)]])
      hour_bucket(hour, hour_int) ==
        [key |-> hour,
         requests |-> count_of(self.hourly, hour),
         pages |-> count_of(self.hourly_pages, hour),
         within_hours |-> (self.work_start <= hour_int
                             /\ hour_int < self.work_end)]
      hourly(hours) ==
        [i \in 1..Len(hours) |->
          hour_bucket(hours[i], int(split_on(hours[i], ":")[1]).val)]
      daily(days) ==
        [i \in 1..Len(days) |->
          [key |-> days[i],
           requests |-> count_of(self.daily, days[i]),
           pages |-> count_of(self.daily_pages, days[i]),
           within_hours |-> NoneBool]]
  IN  [totals |-> TotalsRef,
       queue_stats |-> _build_queue_stats(self),
       queue_user_stats |->
         queue_user_stats([i \in 1..Len(self.queue_user_pages) |->
                            [queue |-> self.queue_user_pages[i][1][1],
                             user |-> self.queue_user_pages[i][1][2],
                             pages |-> self.queue_user_pages[i][2]]]),
       user_stats |-> _build_user_stats(self),
       hourly |-> hourly(sorted_strs(keys(self.hourly))),
       daily |-> daily(sorted_strs(keys(self.daily))),
       job_buckets |-> _build_bucket_section(self.job_histogram),
       copy_buckets |-> _build_bucket_section(self.copy_histogram),
       cost_stats |-> _build_cost_stats(self),
       client_stats |-> _simple_stats(self.client_pages),
       document_types |-> _simple_stats(self.document_pages),
       media_stats |-> _simple_stats(self.media_pages),
       duplex_stats |-> _simple_stats(self.duplex_pages)]

\* UsageAggregator.build_report: the AnalysisReport it returns.
build_report(self) ==
  LET queue_user_stats(rows) ==
        sorted(rows, [i \in 1..Len(rows) |-> [j \in 1..Len(rows) |->
          \/ rows[i].pages > rows[j].pages
          \/ rows[i].pages = rows[j].pages
               /\ str_lt(rows[i].queue, rows[j].queue)
          \/ rows[i].pages = rows[j].pages /\ rows[i].queue = rows[j].queue
               /\ str_lt(rows[i].user, rows[j].user)]])
      hour_bucket(hour, hour_int) ==
        [key |-> hour,
         requests |-> count_of(self.hourly, hour),
         pages |-> count_of(self.hourly_pages, hour),
         within_hours |-> (self.work_start <= hour_int
                             /\ hour_int <= self.work_end)]
      hourly(hours) ==
        [i \in 1..Len(hours) |->
          hour_bucket(hours[i], int(split_on(hours[i], ":")[1]).val)]
      daily(days) ==
        [i \in 1..Len(days) |->
          [key |-> days[i],
           requests |-> count_of(self.daily, days[i]),
           pages |-> count_of(self.daily_pages, days[i]),
           within_hours |-> NoneBool]]
  IN  [totals |-> TotalsRef,
       queue_stats |-> _build_queue_stats(self),
       queue_user_stats |->
         queue_user_stats([i \in 1..Len(self.queue_user_pages) |->
                            [queue |-> self.queue_user_pages[i][1][1],
                             user |-> self.queue_user_pages[i][1][2],
                             pages |-> self.queue_user_pages[i][2]]]),
       user_stats |-> _build_user_stats(self),
       hourly |-> hourly(sorted_strs(keys(self.hourly))),
       daily |-> daily(sorted_strs(keys(self.daily))),
       job_buckets |-> _build_bucket_section(self.job_histogram),
       copy_buckets |-> _build_bucket_section(self.copy_histogram),
       cost_stats |-> _build_cost_stats(self),
       client_stats |-> _simple_stats(self.client_pages),
       document_types |-> _simple_stats(self.document_pages),
       media_stats |-> _simple_stats(self.media_pages),
       duplex_stats |-> _simple_stats(self.duplex_pages)]

\* A build_report that hands its hourly counters out and starts them anew.
after_build_report_draining(self) ==
  [self EXCEPT !.hourly = <<>>, !.hourly_pages = <<>>]

\* UsageAggregator.build_report: the aggregator it leaves.
after_build_report(self) == after_build_cost_stats(self)

\* The aggregator after ingest(record) for every record of records in turn.
RECURSIVE ingest_all(_, _)
ingest_all(agg, records) ==
  IF records = <<>> THEN agg
  ELSE ingest_all(ingest(agg, records[1]), Tail(records))

\* A new aggregator with the configuration of agg.
configured_as(agg) ==
  UsageAggregator(agg.cost_rules, agg.work_start, agg.work_end,
                  agg.cost_default, agg.cost_printer_rates,
                  agg.cost_label_rates)

\* What a holder of report reads from it while the aggregator is agg: the
\* report with its totals reference followed.
view(report, agg) == [report EXCEPT !.totals = agg.totals]

\* ---------------------------------------------------------------- inputs

\* The pieces of the page_log lines the model reads: headers (with the
\* whitespace that ends them) and payloads.

\* "Printer01 alice 12345 [01/Apr/2025:09:03:11 -0300] "
Header1 ==
  <<"P", "r", "i", "n", "t", "e", "r", "0", "1", " ", "a", "l", "i", "c",
    "e", " ", "1", "2", "3", "4", "5", " ", "[", "0", "1", "/", "A", "p",
    "r", "/", "2", "0", "2", "5", ":", "0", "9", ":", "0", "3", ":", "1",
    "1", " ", "-", "0", "3", "0", "0", "]", " ">>

\* "Printer02 bob 12346 [01/Apr/2025:10:00:00 -0300] "
Header2 ==
  <<"P", "r", "i", "n", "t", "e", "r", "0", "2", " ", "b", "o", "b", " ",
    "1", "2", "3", "4", "6", " ", "[", "0", "1", "/", "A", "p", "r", "/",
    "2", "0", "2", "5", ":", "1", "0", ":", "0", "0", ":", "0", "0", " ",
    "-", "0", "3", "0", "0", "]", " ">>

\* "Q1 Dave 1 [01/Jan/2024:00:00:00 +0000] "
Header3 ==
  <<"Q", "1", " ", "D", "a", "v", "e", " ", "1", " ", "[", "0", "1", "/",
    "J", "a", "n", "/", "2", "0", "2", "4", ":", "0", "0", ":", "0", "0",
    ":", "0", "0", " ", "+", "0", "0", "0", "0", "]", " ">>

\* "printer01 carol 9 [31/Mar/2025:23:30:00 -0500]\t"
Header4 ==
  <<"p", "r", "i", "n", "t", "e", "r", "0", "1", " ", "c", "a", "r", "o",
    "l", " ", "9", " ", "[", "3", "1", "/", "M", "a", "r", "/", "2", "0",
    "2", "5", ":", "2", "3", ":", "3", "0", ":", "0", "0", " ", "-", "0",
    "5", "0", "0", "]", TAB>>

\* "Printer02 alice 7 [01/Apr/2025:03:00:00 +0900] "
Header5 ==
  <<"P", "r", "i", "n", "t", "e", "r", "0", "2", " ", "a", "l", "i", "c",
    "e", " ", "7", " ", "[", "0", "1", "/", "A", "p", "r", "/", "2", "0",
    "2", "5", ":", "0", "3", ":", "0", "0", ":", "0", "0", " ", "+", "0",
    "9", "0", "0", "]", " ">>

\* "Printer01 bob 8 [01/Apr/2025:12:03:11 +0000] "
Header6 ==
  <<"P", "r", "i", "n", "t", "e", "r", "0", "1", " ", "b", "o", "b", " ",
    "8", " ", "[", "0", "1", "/", "A", "p", "r", "/", "2", "0", "2", "5",
    ":", "1", "2", ":", "0", "3", ":", "1", "1", " ", "+", "0", "0", "0",
    "0", "]", " ">>

\* "Printer01 alice 12345 [2025-04-01 09:03:11] "
HeaderBadTime ==
  <<"P", "r", "i", "n", "t", "e", "r", "0", "1", " ", "a", "l", "i", "c",
    "e", " ", "1", "2", "3", "4", "5", " ", "[", "2", "0", "2", "5", "-",
    "0", "4", "-", "0", "1", " ", "0", "9", ":", "0", "3", ":", "1", "1",
    "]", " ">>

\* "Printer01 alice 12345 [31/Apr/2025:09:03:11 -0300] "
HeaderBadDay ==
  <<"P", "r", "i", "n", "t", "e", "r", "0", "1", " ", "a", "l", "i", "c",
    "e", " ", "1", "2", "3", "4", "5", " ", "[", "3", "1", "/", "A", "p",
    "r", "/", "2", "0", "2", "5", ":", "0", "9", ":", "0", "3", ":", "1",
    "1", " ", "-", "0", "3", "0", "0", "]", " ">>

\* "total 5 - 192.168.1.1 doc.pdf - -"
PayloadStd ==
  <<"t", "o", "t", "a", "l", " ", "5", " ", "-", " ", "1", "9", "2", ".",
    "1", "6", "8", ".", "1", ".", "1", " ", "d", "o", "c", ".", "p", "d",
    "f", " ", "-", " ", "-">>

\* "total 10 - 192.168.1.2 report.pdf A4 one-sided"
PayloadMedia ==
  <<"t", "o", "t", "a", "l", " ", "1", "0", " ", "-", " ", "1", "9", "2",
    ".", "1", "6", "8", ".", "1", ".", "2", " ", "r", "e", "p", "o", "r",
    "t", ".", "p", "d", "f", " ", "A", "4", " ", "o", "n", "e", "-", "s",
    "i", "d", "e", "d">>

\* "total 3 PROJECT123 192.168.1.1 My Report.PDF - two-sided-long-edge"
PayloadBilling ==
  <<"t", "o", "t", "a", "l", " ", "3", " ", "P", "R", "O", "J", "E", "C",
    "T", "1", "2", "3", " ", "1", "9", "2", ".", "1", "6", "8", ".", "1",
    ".", "1", " ", "M", "y", " ", "R", "e", "p", "o", "r", "t", ".", "P",
    "D", "F", " ", "-", " ", "t", "w", "o", "-", "s", "i", "d", "e", "d",
    "-", "l", "o", "n", "g", "-", "e", "d", "g", "e">>

\* "PAGE 12 -none- - - - -"
PayloadPlaceholders ==
  <<"P", "A", "G", "E", " ", "1", "2", " ", "-", "n", "o", "n", "e", "-",
    " ", "-", " ", "-", " ", "-", " ", "-">>

\* "page 0 acct1 - notes - Simplex"
PayloadZero ==
  <<"p", "a", "g", "e", " ", "0", " ", "a", "c", "c", "t", "1", " ", "-",
    " ", "n", "o", "t", "e", "s", " ", "-", " ", "S", "i", "m", "p", "l",
    "e", "x">>

\* "7 2 ACCT1"
PayloadLegacy ==
  <<"7", " ", "2", " ", "A", "C", "C", "T", "1">>

\* "250 101 - extra tokens"
PayloadLegacyExtra ==
  <<"2", "5", "0", " ", "1", "0", "1", " ", "-", " ", "e", "x", "t", "r",
    "a", " ", "t", "o", "k", "e", "n", "s">>

\* "7 0 ACCT1"
PayloadLegacyZeroCopies ==
  <<"7", " ", "0", " ", "A", "C", "C", "T", "1">>

\* "total -5 - 192.168.1.1 doc.pdf - -"
PayloadNegativePages ==
  <<"t", "o", "t", "a", "l", " ", "-", "5", " ", "-", " ", "1", "9", "2",
    ".", "1", "6", "8", ".", "1", ".", "1", " ", "d", "o", "c", ".", "p",
    "d", "f", " ", "-", " ", "-">>

\* "pages 5 - 192.168.1.1 doc.pdf - -"
PayloadKeyword ==
  <<"p", "a", "g", "e", "s", " ", "5", " ", "-", " ", "1", "9", "2", ".",
    "1", "6", "8", ".", "1", ".", "1", " ", "d", "o", "c", ".", "p", "d",
    "f", " ", "-", " ", "-">>

\* "total 5 -"
PayloadShort ==
  <<"t", "o", "t", "a", "l", " ", "5", " ", "-">>

\* "total 5 - 192.168.1.1 doc.pdf"
PayloadNoMedia ==
  <<"t", "o", "t", "a", "l", " ", "5", " ", "-", " ", "1", "9", "2", ".",
    "1", "6", "8", ".", "1", ".", "1", " ", "d", "o", "c", ".", "p", "d",
    "f">>

\* "total five - 192.168.1.1 doc.pdf - -"
PayloadWord ==
  <<"t", "o", "t", "a", "l", " ", "f", "i", "v", "e", " ", "-", " ", "1",
    "9", "2", ".", "1", "6", "8", ".", "1", ".", "1", " ", "d", "o", "c",
    ".", "p", "d", "f", " ", "-", " ", "-">>

\* "7 x ACCT1"
PayloadLegacyWord ==
  <<"7", " ", "x", " ", "A", "C", "C", "T", "1">>

\* "7 2"
PayloadLegacyShort ==
  <<"7", " ", "2">>

\* "² 1 ACCT1"
PayloadSuperscript ==
  <<SUP2, " ", "1", " ", "A", "C", "C", "T", "1">>

\* " "
PayloadBlank ==
  <<" ">>

\* "invalid line format"
LineInvalid ==
  <<"i", "n", "v", "a", "l", "i", "d", " ", "l", "i", "n", "e", " ", "f",
    "o", "r", "m", "a", "t">>

\* The lines the aggregator is driven with: every payload shape parse_line
\* accepts, one rejected line and one blank line.
Lines ==
  { Header1 \o PayloadStd,
    Header2 \o PayloadMedia,
    Header1 \o PayloadBilling,
    Header4 \o PayloadPlaceholders,
    Header4 \o PayloadZero,
    Header3 \o PayloadLegacy,
    Header3 \o PayloadLegacyExtra,
    Header3 \o PayloadLegacyZeroCopies,
    Header2 \o PayloadNegativePages,
    LineInvalid,
    <<>> }

\* The lines the log reader is driven with: those, and one line for every
\* way parse_line rejects a line.
LogLines ==
  Lines \cup
  { HeaderBadTime \o PayloadStd,
    HeaderBadDay \o PayloadStd,
    Header1 \o PayloadKeyword,
    Header1 \o PayloadShort,
    Header1 \o PayloadNoMedia,
    Header1 \o PayloadWord,
    Header3 \o PayloadLegacyWord,
    Header3 \o PayloadLegacyShort,
    Header3 \o PayloadSuperscript,
    Header1 \o PayloadBlank }

\* The aggregator configurations: the arguments of UsageAggregator(...).
\* cost_rules and the rate tables are dicts, in insertion order.
Configs ==
  { UsageAggregator(<<>>, 7, 22, 0, <<>>, <<>>),
    UsageAggregator(
      << << <<"b", "l", "a", "n", "k">>, <<" ", ",", " ", ";", " ">> >>,
         << <<"o", "p", "s">>,
            <<"B", "o", "b", "|", "r", "e", "p", "o", "r", "t">> >>,
         << <<"f", "r", "o", "n", "t">>,
            <<"p", "r", "i", "n", "t", "e", "r", "0", "1", ";", " ",
              "n", "o", "t", "e", "s", ",">> >> >>,
      9, 10, 50,
      << << <<"p", "r", "i", "n", "t", "e", "r", "0", "1">>, 20 >> >>,
      << << <<"a", "c", "c", "t", "1">>, 100 >> >>) }

\* ---------------------------------------------------------- state machine

\* The number of lines of the log file.
MaxLines == 2

\* The number of lines of the log file, for the log reader alone.
MaxLogLines == 2

\* The number of reports a caller asks for.
MaxReports == 2

\* line.rstrip("\n")
rstrip_newline(line) ==
  SubSeq(line, 1,
         Len(line) - (CHOOSE n \in 0..Len(line) :
           /\ \A k \in (Len(line) - n + 1)..Len(line) : line[k] = NEWLINE
           /\ (n = Len(line) \/ line[Len(line) - n] # NEWLINE)))

VARIABLES
  self,      \* the UsageAggregator object
  lineno,    \* parse_page_log: the number of lines read from the file
  log,       \* the text of the lines read so far (line terminators dropped)
  entries,   \* the entries parse_page_log has yielded, all of them ingested
  warnings,  \* the line numbers of the "Skipping line %d" warnings logged
  aborted,   \* whether an exception has escaped parse_page_log
  reports,   \* the AnalysisReport objects build_report has returned
  returned,  \* for each of those: what it held when it was returned
  run,       \* the call of run_report in progress, if one is
  conf       \* the call of parse_config in progress, if one is

vars ==
  <<self, lineno, log, entries, warnings, aborted, reports, returned, run,
    conf>>

\* No call of run_report: the aggregator is used as a library object.
NoRun ==
  [pc |-> "none", config |-> <<>>, start_date |-> NoneDatetime,
   end_date |-> NoneDatetime, outputs |-> <<>>, rendered |-> <<>>,
   attachments |-> <<>>, stdout |-> <<>>, exc |-> "None"]

\* No call of parse_config: the configuration is given as an object.
NoConf ==
  [pc |-> "none", lines |-> <<>>, section |-> None, raw |-> <<>>,
   config |-> <<>>, exc |-> "None", resolved |-> <<>>]

Init ==
  /\ self \in Configs
  /\ lineno = 0
  /\ log = <<>>
  /\ entries = <<>>
  /\ warnings = <<>>
  /\ aborted = FALSE
  /\ reports = <<>>
  /\ returned = <<>>
  /\ run = NoRun
  /\ conf = NoConf

\* The loop of parse_page_log without its try/except (lines 53-57): the
\* ValueError of parse_line leaves the generator.
ReadLine_unhandled(text) ==
  \E line \in {rstrip_newline(text \o <<NEWLINE>>)} :
  \E result \in {IF line = <<>> THEN Ok(<<>>) ELSE parse_line(line)} :
    /\ ~aborted
    /\ lineno' = lineno + 1
    /\ log' = Append(log, text)
    /\ IF line = <<>>
       THEN UNCHANGED <<self, entries, warnings, aborted>>
       ELSE IF result.ok
       THEN /\ entries' = Append(entries, result.val)
            /\ self' = ingest(self, result.val)
            /\ UNCHANGED <<warnings, aborted>>
       ELSE /\ aborted' = TRUE
            /\ UNCHANGED <<self, entries, warnings>>
    /\ UNCHANGED <<reports, returned, run, conf>>

\* One turn of the loop of parse_page_log over the file's next line, text
\* and its line terminator, with what the loop's consumer does with a
\* yielded entry: aggregator.ingest(entry).
ReadLine(text) ==
  \E line \in {rstrip_newline(text \o <<NEWLINE>>)} :
  \E result \in {IF line = <<>> THEN Ok(<<>>) ELSE parse_line(line)} :
    /\ ~aborted
    /\ lineno' = lineno + 1
    /\ log' = Append(log, text)
    /\ IF line = <<>>
       THEN UNCHANGED <<self, entries, warnings, aborted>>
       ELSE IF result.ok
       THEN /\ entries' = Append(entries, result.val)
            /\ self' = ingest(self, result.val)
            /\ UNCHANGED <<warnings, aborted>>
       ELSE IF result.exc = "ValueError"
       THEN /\ warnings' = Append(warnings, lineno + 1)
            /\ UNCHANGED <<self, entries, aborted>>
       ELSE /\ aborted' = TRUE
            /\ UNCHANGED <<self, entries, warnings>>
    /\ UNCHANGED <<reports, returned, run, conf>>

\* report = aggregator.build_report()
BuildReport ==
  /\ ~aborted
  /\ Len(reports) < MaxReports
  /\ \E report \in {build_report(self)} :
       /\ reports' = Append(reports, report)
       /\ returned' = Append(returned,
                        [value |-> view(report, self),
                         ingested |-> Len(entries)])
  /\ self' = after_build_report(self)
  /\ UNCHANGED <<lineno, log, entries, warnings, aborted, run, conf>>

Next ==
  \/ \E text \in Lines : lineno < MaxLines /\ ReadLine(text)
  \/ BuildReport

\* The aggregator used as a library object: ingest and build_report in any
\* order.
Spec == Init /\ [][Next]_vars

NextLog == \E text \in LogLines : lineno < MaxLogLines /\ ReadLine(text)

\* The log reader over an arbitrary file, every entry ingested.
SpecLog == Init /\ [][NextLog]_vars

\* The records a caller ingests one after the other: two of one instant
\* written with two UTC offsets, and two whose wall-clock order is not the
\* order of their instants.
IngestLines ==
  { Header1 \o PayloadStd,
    Header6 \o PayloadMedia,
    Header5 \o PayloadStd,
    Header4 \o PayloadZero }

\* The number of records ingested.
MaxIngests == 3

NextIngest == \E text \in IngestLines : lineno < MaxIngests /\ ReadLine(text)

\* A sequence of ingest calls on one aggregator.
SpecIngest == Init /\ [][NextIngest]_vars

NextReport ==
  \/ \E text \in IngestLines : lineno < MaxIngests /\ ReadLine(text)
  \/ BuildReport

\* A sequence of ingest calls on one aggregator, reports built in between.
SpecReport == Init /\ [][NextReport]_vars

\* ------------------------------------------------------------- run_report

S_email == <<"e", "m", "a", "i", "l">>

\* The output modules registered by the package: the registry's keys.
REGISTRY ==
  { <<"c", "l", "i">>, <<"c", "s", "v">>, S_email, <<"h", "t", "m", "l">> }

\* A path, as far as the output modules look at one: str(path) and
\* path.suffix.
Path(dir, stem, suffix) == [str |-> dir \o "/" \o stem \o suffix, suffix |-> suffix]

\* An EmailSettings object: the fields of the dataclass, those that no
\* input of the model varies at their defaults.
EmailSettings(enabled, recipients, attach_csv, attach_html) ==
  [enabled |-> enabled, smtp_host |-> "", smtp_port |-> 25, smtp_user |-> "",
   smtp_password |-> "", use_tls |-> FALSE, recipients |-> recipients,
   attach_csv |-> attach_csv, attach_html |-> attach_html]

\* A Config object: the fields run_report and the output modules read, the
\* directories at their defaults.
Config(cost_inference_rules, work_start, work_end, outputs, email, cost_default, cost_printer_rates, cost_label_rates) ==
  [work_start |-> work_start, work_end |-> work_end, outputs |-> outputs,
   csv_dir |-> "reports", html_path |-> Path("reports", "printaudit", ".html"),
   cost_inference_rules |-> cost_inference_rules, email |-> email,
   cost_default |-> cost_default, cost_printer_rates |-> cost_printer_rates,
   cost_label_rates |-> cost_label_rates]

\* _ordered_outputs without lines 52-53: the names cleaned, in the
\* configured order.
_ordered_outputs_unmoved(outputs) ==
  LET kept == SelectSeq(outputs, LAMBDA name : strip(name) # <<>>)
  IN  [i \in 1..Len(kept) |-> lower(strip(kept[i]))]

\* _ordered_outputs
_ordered_outputs(outputs) ==
  LET kept == SelectSeq(outputs, LAMBDA name : strip(name) # <<>>)
      sanitized == [i \in 1..Len(kept) |-> lower(strip(kept[i]))]
  IN  IF \E i \in 1..Len(sanitized) : sanitized[i] = S_email
      THEN SelectSeq(sanitized, LAMBDA name : name # S_email) \o <<S_email>>
      ELSE sanitized

\* run_report, lines 22-26: the aggregator it constructs.  The arguments it
\* does not pass take the defaults of UsageAggregator.__init__: 0.0 and None,
\* which __init__ turns into {}.
run_report_aggregator(config) ==
  UsageAggregator(config.cost_inference_rules, config.work_start, config.work_end, 0, <<>>, <<>>)

\* CsvOutput.render: the files it writes, in order; each is appended to
\* context.attachments.
CsvOutput_files(csv_dir) ==
  [i \in 1..12 |->
     Path(csv_dir,
          <<"queue", "queue_user", "users", "hourly", "daily", "job_buckets",
            "copy_buckets", "cost", "clients", "document_types", "media",
            "duplex">>[i],
          ".csv")]

\* EmailOutput._select_attachments
_select_attachments(attachments, settings) ==
  SelectSeq(attachments,
            LAMBDA path :
              \/ path.suffix = ".csv" /\ settings.attach_csv
              \/ path.suffix \in {".htm", ".html"} /\ settings.attach_html)

\* EmailClient.send_report with EmailClient._send: delivered is whether the
\* SMTP conversation went through (an OSError otherwise, which _send turns
\* into EmailDeliveryError).
send_report(settings, attachments, delivered) ==
  IF ~settings.enabled
    THEN Raise("EmailDeliveryError", "Email delivery disabled in configuration.")
  ELSE IF settings.recipients = <<>>
    THEN Raise("EmailDeliveryError", "Email enabled but no recipients configured.")
  ELSE IF "from_address" \notin DOMAIN settings
    THEN Raise("AttributeError", "from_address")
  ELSE IF ~delivered
    THEN Raise("EmailDeliveryError", "OSError")
  ELSE Ok(attachments)

\* EmailOutput.render: Ok(what it printed) or the exception that left it.
\* An attribute the object does not have raises AttributeError: subject is
\* no field of EmailSettings, and None has no date().
EmailOutput_render(context, report, delivered) ==
  LET caught(sent) ==
        IF sent.ok THEN Ok(<<>>)
        ELSE IF sent.exc = "EmailDeliveryError"
          THEN Ok(<<"[printaudit] email delivery failed">>)
        ELSE sent
  IN  IF ~context.config.email.enabled THEN Ok(<<>>)
      ELSE IF "subject" \notin DOMAIN context.config.email
        THEN Raise("AttributeError", "subject")
      ELSE IF report.totals.first_event = NoneDatetime
                \/ report.totals.last_event = NoneDatetime
        THEN Raise("AttributeError", "date")
      ELSE caught(send_report(context.config.email,
                    _select_attachments(context.attachments,
                                        context.config.email),
                    delivered))

\* module.render(report) for the module registered under name: the context
\* after it (its attachments, what went to its stdout) or the exception.
render(name, context, report, delivered) ==
  LET printed(result) ==
        IF result.ok
        THEN Ok([context EXCEPT !.stdout = @ \o result.val])
        ELSE result
  IN  IF name = <<"c", "l", "i">>
        THEN Ok([context EXCEPT !.stdout = Append(@, "report")])
      ELSE IF name = <<"c", "s", "v">>
        THEN Ok([context EXCEPT
                   !.attachments = @ \o CsvOutput_files(context.config.csv_dir)])
      ELSE IF name = <<"h", "t", "m", "l">>
        THEN Ok([context EXCEPT
                   !.attachments = Append(@, context.config.html_path)])
      ELSE printed(EmailOutput_render(context, report, delivered))

\* The output lists of the configurations.
OutputsCli == << <<"c", "l", "i">> >>

OutputsEmailFirst ==
  << <<" ", "E", "m", "a", "i", "l", " ">>, <<"c", "s", "v">>,
     <<"H", "T", "M", "L">>, <<"c", "l", "i">> >>

OutputsEmailTwice ==
  << <<"h", "t", "m", "l">>, S_email, <<" ">>, <<"c", "s", "v">>,
     <<"E", "M", "A", "I", "L">>, <<"c", "l", "i", TAB>> >>

OutputsUnknown == << <<"c", "s", "v">>, S_email, <<"p", "d", "f">> >>

\* The rules of the second aggregator configuration, with a token more
\* in the second rule, and its rates.
CostRules ==
  << << <<"b", "l", "a", "n", "k">>, <<" ", ",", " ", ";", " ">> >>,
     << <<"o", "p", "s">>,
        <<"B", "o", "b", "|", "r", "e", "p", "o", "r", "t", ",", " ",
          "A", "l", "i", "c", "e", " ">> >>,
     << <<"f", "r", "o", "n", "t">>,
        <<"p", "r", "i", "n", "t", "e", "r", "0", "1", ";", " ",
          "n", "o", "t", "e", "s", ",">> >> >>

PrinterRates == << << <<"p", "r", "i", "n", "t", "e", "r", "0", "1">>, 20 >> >>

LabelRates == << << <<"a", "c", "c", "t", "1">>, 100 >> >>

\* The configurations run_report is called with.
RunConfigs ==
  { Config(<<>>, 7, 22, OutputsCli,
           EmailSettings(FALSE, <<>>, FALSE, FALSE), 0, <<>>, <<>>),
    Config(CostRules, 9, 10, OutputsEmailFirst,
           EmailSettings(TRUE, <<"ops@example.org">>, TRUE, FALSE),
           50, PrinterRates, LabelRates),
    Config(<<>>, 7, 22, OutputsEmailTwice,
           EmailSettings(TRUE, <<>>, FALSE, TRUE), 0, <<>>, <<>>),
    Config(<<>>, 7, 22, OutputsEmailTwice,
           EmailSettings(FALSE, <<"ops@example.org">>, TRUE, TRUE),
           50, <<>>, <<>>),
    Config(CostRules, 7, 22, OutputsUnknown,
           EmailSettings(FALSE, <<>>, FALSE, FALSE), 0, <<>>, LabelRates) }

\* A datetime.date.
date(year, month, day) == [year |-> year, month |-> month, day |-> day]

\* The start_date and end_date run_report is called with; None is no bound.
RunDates ==
  { <<NoneDatetime, NoneDatetime>>,
    <<date(2025, 4, 1), NoneDatetime>>,
    <<NoneDatetime, date(2025, 3, 31)>>,
    <<date(2025, 3, 31), date(2025, 4, 1)>>,
    <<date(2025, 4, 1), date(2025, 3, 31)>> }

\* The lines of the page log run_report reads.
RunLines ==
  { Header1 \o PayloadStd,
    Header2 \o PayloadMedia,
    Header4 \o PayloadZero,
    Header4 \o PayloadPlaceholders,
    Header3 \o PayloadLegacy,
    LineInvalid }

\* The number of lines of the page log run_report reads.
MaxRunLines == 2

\* run_report, lines 22-27 and 38: the call has constructed its aggregator
\* and is about to read the log.
RunInit ==
  /\ \E config \in RunConfigs : \E dates \in RunDates :
       /\ self = run_report_aggregator(config)
       /\ run = [pc |-> "loop", config |-> config, start_date |-> dates[1],
                 end_date |-> dates[2], outputs |-> <<>>, rendered |-> <<>>,
                 attachments |-> <<>>, stdout |-> <<>>, exc |-> "None"]
  /\ lineno = 0
  /\ log = <<>>
  /\ entries = <<>>
  /\ warnings = <<>>
  /\ aborted = FALSE
  /\ reports = <<>>
  /\ returned = <<>>
  /\ conf = NoConf

\* The body of run_report's loop with the end date left out of the range.
run_report_body_open_ended(aggregator, entry, start_date, end_date) ==
  IF start_date # NoneDatetime /\ date_lt(date_of(entry.timestamp), start_date)
    THEN aggregator
  ELSE IF end_date # NoneDatetime /\ ~date_lt(date_of(entry.timestamp), end_date)
    THEN aggregator
  ELSE ingest(aggregator, entry)

\* run_report, lines 30-35: the body of its loop, for a yielded entry.
run_report_body(aggregator, entry, start_date, end_date) ==
  IF start_date # NoneDatetime /\ date_lt(date_of(entry.timestamp), start_date)
    THEN aggregator
  ELSE IF end_date # NoneDatetime /\ date_lt(end_date, date_of(entry.timestamp))
    THEN aggregator
  ELSE ingest(aggregator, entry)

\* run_report, lines 29-35: one turn of the loop of parse_page_log over the
\* file's next line, and the body of run_report's loop for a yielded entry.
RunLoop(text) ==
  \E line \in {rstrip_newline(text \o <<NEWLINE>>)} :
  \E result \in {IF line = <<>> THEN Ok(<<>>) ELSE parse_line(line)} :
    /\ run.pc = "loop"
    /\ lineno' = lineno + 1
    /\ log' = Append(log, text)
    /\ IF line = <<>>
       THEN UNCHANGED <<self, entries, warnings, aborted, run>>
       ELSE IF result.ok
       THEN /\ entries' = Append(entries, result.val)
            /\ self' = run_report_body(self, result.val,
                                       run.start_date, run.end_date)
            /\ UNCHANGED <<warnings, aborted, run>>
       ELSE IF result.exc = "ValueError"
       THEN /\ warnings' = Append(warnings, lineno + 1)
            /\ UNCHANGED <<self, entries, aborted, run>>
       ELSE /\ aborted' = TRUE
            /\ run' = [run EXCEPT !.pc = "raised", !.exc = result.exc]
            /\ UNCHANGED <<self, entries, warnings>>
    /\ UNCHANGED <<reports, returned, conf>>

\* run_report, lines 37-40: the log is exhausted; the report is built and
\* the output modules are put in order.
RunBuildReport ==
  /\ run.pc = "loop"
  /\ \E report \in {build_report(self)} :
       /\ reports' = Append(reports, report)
       /\ returned' = Append(returned,
                        [value |-> view(report, self),
                         ingested |-> self.totals.requests])
  /\ self' = after_build_report(self)
  /\ run' = [run EXCEPT !.pc = "render",
                        !.outputs = _ordered_outputs(run.config.outputs)]
  /\ UNCHANGED <<lineno, log, entries, warnings, aborted, conf>>

\* run_report, lines 41-44: one turn of the loop over the output modules.
\* An exception of get_output_module or of render leaves run_report.
RunRender ==
  /\ run.pc = "render"
  /\ Len(run.rendered) < Len(run.outputs)
  /\ \E name \in {run.outputs[Len(run.rendered) + 1]} :
       IF name \notin REGISTRY
       THEN run' = [run EXCEPT !.pc = "raised", !.exc = "KeyError"]
       ELSE \E delivered \in BOOLEAN :
            \E result \in {render(name, run, view(reports[1], self), delivered)} :
              IF result.ok
              THEN run' = [result.val EXCEPT !.rendered = Append(@, name)]
              ELSE run' = [run EXCEPT !.pc = "raised", !.exc = result.exc,
                                      !.rendered = Append(@, name)]
  /\ UNCHANGED <<self, lineno, log, entries, warnings, aborted, reports,
                 returned, conf>>

\* run_report, line 46: return context.attachments.
RunReturn ==
  /\ run.pc = "render"
  /\ Len(run.rendered) = Len(run.outputs)
  /\ run' = [run EXCEPT !.pc = "returned"]
  /\ UNCHANGED <<self, lineno, log, entries, warnings, aborted, reports,
                 returned, conf>>

NextRun ==
  \/ \E text \in RunLines : lineno < MaxRunLines /\ RunLoop(text)
  \/ RunBuildReport
  \/ RunRender
  \/ RunReturn

\* One call of run_report over an arbitrary page log.
SpecRun == RunInit /\ [][NextRun]_vars

\* ----------------------------------------------------------- parse_config

\* d[k] = v for a dict: a key it has keeps its place.
dict_set(d, k, v) ==
  IF has_key(d, k)
  THEN [i \in 1..Len(d) |-> IF d[i][1] = k THEN <<k, v>> ELSE d[i]]
  ELSE Append(d, <<k, v>>)

\* float(text), in thousandths, for the literals the configurations below
\* hold: decimal digits with at most one point and at most three digits
\* after it.  Any other text they hold is no number: ValueError.
float(text) ==
  LET whole(t) == SubSeq(t, 1, SpanIn(t, 1, AsciiDigits))
      fraction(t) == SubSeq(t, SpanIn(t, 1, AsciiDigits) + 2, Len(t))
      pad(ds) == ds \o SubSeq(<<"0", "0", "0">>, 1, 3 - Len(ds))
      literal(t) ==
        IF t # <<>> /\ \A k \in 1..Len(t) : t[k] \in AsciiDigits
          THEN Ok(1000 * decimal_value(t))
        ELSE IF /\ SpanIn(t, 1, AsciiDigits) < Len(t)
                /\ t[SpanIn(t, 1, AsciiDigits) + 1] = "."
                /\ \A k \in 1..Len(fraction(t)) : fraction(t)[k] \in AsciiDigits
                /\ Len(fraction(t)) <= 3
                /\ Len(whole(t)) + Len(fraction(t)) > 0
          THEN Ok(1000 * decimal_value(whole(t)) + decimal_value(pad(fraction(t))))
        ELSE Raise("ValueError", "could not convert string to float")
  IN  literal(strip(text))

\* _split_csv
_split_csv(raw) ==
  LET items == SelectSeq(split_on(raw, ","), LAMBDA part : strip(part) # <<>>)
  IN  [i \in 1..Len(items) |-> strip(items[i])]

\* Config(): the defaults of the dataclass.
DefaultConfig ==
  Config(<<>>, 7, 22, << <<"c", "l", "i">> >>,
         EmailSettings(FALSE, <<>>, FALSE, FALSE), 0, <<>>, <<>>)

\* The keys and the key prefixes parse_config looks for.
CORE_WORK_START == <<"c", "o", "r", "e", ".", "w", "o", "r", "k", "_", "s", "t", "a", "r", "t">>

CORE_WORK_END == <<"c", "o", "r", "e", ".", "w", "o", "r", "k", "_", "e", "n", "d">>

CORE_OUTPUTS == <<"c", "o", "r", "e", ".", "o", "u", "t", "p", "u", "t", "s">>

COSTS_DEFAULT == <<"c", "o", "s", "t", "s", ".", "d", "e", "f", "a", "u", "l", "t">>

COSTS_PRINTER == <<"c", "o", "s", "t", "s", ".", "p", "r", "i", "n", "t", "e", "r", ".">>

COSTS_LABEL == <<"c", "o", "s", "t", "s", ".", "l", "a", "b", "e", "l", ".">>

COST_RULES == <<"c", "o", "s", "t", "_", "r", "u", "l", "e", "s", ".">>

COSTS_COST_RULE == <<"c", "o", "s", "t", "s", ".", "c", "o", "s", "t", "_", "r", "u", "l", "e", ".">>

COST_RULE == <<"c", "o", "s", "t", "_", "r", "u", "l", "e", ".">>

\* parse_config, lines 107-133: the body of its loop for one line of the
\* file, on the section in effect and the raw dict: those after the line,
\* or ConfigError.
parse_config_line(section, raw, line) ==
  LET after(section_, raw_) == Ok([section |-> section_, raw |-> raw_])
      put(key, value) ==
        after(section,
              dict_set(raw,
                       IF section = None THEN key
                       ELSE section \o <<".">> \o key,
                       value))
      assign(stripped, eq) ==
        put(lower(strip(SubSeq(stripped, 1, eq - 1))),
            strip(SubSeq(stripped, eq + 1, Len(stripped))))
      header(name) == after(IF name # <<>> THEN name ELSE None, raw)
      body(stripped) ==
        IF stripped = <<>> \/ stripped[1] = "#" THEN after(section, raw)
        ELSE IF stripped[1] = "[" /\ stripped[Len(stripped)] = "]"
          THEN header(lower(strip(SubSeq(stripped, 2, Len(stripped) - 1))))
        ELSE IF \A k \in 1..Len(stripped) : stripped[k] # "="
          THEN Raise("ConfigError", "Invalid config line")
        ELSE assign(stripped, 1 + SpanNotIn(stripped, 1, {"="}))
  IN  body(strip(line))

\* parse_config, lines 164-198: the loop over raw.items() that fills the
\* rate tables and the rules of config; the config after it, or the
\* ValueError of float().
RECURSIVE parse_config_items(_, _)
parse_config_items(config, items) ==
  LET rest(config_) == parse_config_items(config_, Tail(items))
      after(prefix, key) == SubSeq(key, Len(prefix) + 1, Len(key))
      rate(field, name, number) ==
        IF ~number.ok THEN number
        ELSE rest([config EXCEPT ![field] = dict_set(@, lower(name), number.val)])
      rule(name, value) ==
        IF name = <<>> THEN rest(config)
        ELSE rest([config EXCEPT
                     !.cost_inference_rules = dict_set(@, name, value)])
      each(key, value) ==
        IF startswith(key, COSTS_PRINTER)
          THEN IF after(COSTS_PRINTER, key) = <<>> THEN rest(config)
               ELSE rate("cost_printer_rates", after(COSTS_PRINTER, key),
                         float(value))
        ELSE IF startswith(key, COSTS_LABEL)
          THEN IF after(COSTS_LABEL, key) = <<>> THEN rest(config)
               ELSE rate("cost_label_rates", after(COSTS_LABEL, key),
                         float(value))
        ELSE IF startswith(key, COST_RULES)
          THEN rule(after(COST_RULES, key), value)
        ELSE IF startswith(key, COSTS_COST_RULE)
          THEN rule(after(COSTS_COST_RULE, key), value)
        ELSE IF startswith(key, COST_RULE)
          THEN rule(after(COST_RULE, key), value)
        ELSE rest(config)
  IN  IF items = <<>> THEN Ok(config) ELSE each(items[1][1], items[1][2])

\* parse_config, lines 135-202, for the keys the configurations below hold:
\* core.work_start, core.work_end, core.outputs and those of the cost
\* sections.  The Config it returns, or the ValueError of int() or float().
parse_config_load(raw) ==
  LET setting(key, convert_default, otherwise) ==
        IF has_key(raw, key) THEN convert_default ELSE Ok(otherwise)
      built(work_start, work_end, outputs, cost_default) ==
        IF ~work_start.ok THEN work_start
        ELSE IF ~work_end.ok THEN work_end
        ELSE IF ~cost_default.ok THEN cost_default
        ELSE parse_config_items(
               [DefaultConfig EXCEPT !.work_start = work_start.val,
                                     !.work_end = work_end.val,
                                     !.outputs = outputs,
                                     !.cost_default = cost_default.val],
               raw)
  IN  built(setting(CORE_WORK_START, int(count_of(raw, CORE_WORK_START)),
                    DefaultConfig.work_start),
            setting(CORE_WORK_END, int(count_of(raw, CORE_WORK_END)),
                    DefaultConfig.work_end),
            IF has_key(raw, CORE_OUTPUTS)
              THEN _split_csv(count_of(raw, CORE_OUTPUTS))
              ELSE DefaultConfig.outputs,
            setting(COSTS_DEFAULT, float(count_of(raw, COSTS_DEFAULT)),
                    DefaultConfig.cost_default))

\* A line of a configuration file: its text, and what it says when it
\* stands under the [costs] section (for the properties alone).
Written(text, kind, name, rate) ==
  [text |-> text, kind |-> kind, name |-> name, rate |-> rate]

\* The lines of the configuration files.
ConfLines ==
  { Written(<<"[", "C", "o", "s", "t", "s", "]">>, "section", <<>>, 0),
    Written(<<"d", "e", "f", "a", "u", "l", "t", " ", "=", " ", "0", ".", "0", "5">>, "default", <<>>, 50),
    Written(<<"l", "a", "b", "e", "l", ".", "A", "C", "C", "T", "1", " ", "=", " ", "0", ".", "1">>, "label", <<"A", "C", "C", "T", "1">>, 100),
    Written(<<"L", "a", "b", "e", "l", ".", "a", "c", "c", "t", "1", "=", "0", ".", "2">>, "label", <<"a", "c", "c", "t", "1">>, 200),
    Written(<<" ", " ", "p", "r", "i", "n", "t", "e", "r", ".", "P", "r", "i", "n", "t", "e", "r", "0", "1", " ", "=", " ", ".", "0", "2">>, "printer", <<"P", "r", "i", "n", "t", "e", "r", "0", "1">>, 20),
    Written(<<"l", "a", "b", "e", "l", ".", "a", "c", "c", "t", "1", " ", "=", " ", "x">>, "label", <<"a", "c", "c", "t", "1">>, 0 - 1),
    Written(<<"w", "o", "r", "k", "_", "s", "t", "a", "r", "t", " ", "=", " ", "8">>, "other", <<>>, 0),
    Written(<<"#", " ", "r", "a", "t", "e", "s">>, "other", <<>>, 0),
    Written(<<"d", "e", "f", "a", "u", "l", "t", " ", "0", ".", "0", "5">>, "invalid", <<>>, 0) }

\* The labels and the queues rates are resolved for.
RateLabels == { <<"A", "C", "C", "T", "1">>, <<"A", "c", "c", "t", "1">>, S_unassigned }

RateQueues == { <<"P", "r", "i", "n", "t", "e", "r", "0", "1">>, <<"P", "R", "I", "N", "T", "E", "R", "0", "1">>, <<"Q", "1">> }

\* The number of lines of the configuration file.
MaxConfLines == 3

\* parse_config has opened the file.
ConfInit ==
  /\ conf = [pc |-> "read", lines |-> <<>>, section |-> None, raw |-> <<>>,
             config |-> <<>>, exc |-> "None", resolved |-> <<>>]
  /\ self = UsageAggregator(<<>>, 7, 22, 0, <<>>, <<>>)
  /\ lineno = 0
  /\ log = <<>>
  /\ entries = <<>>
  /\ warnings = <<>>
  /\ aborted = FALSE
  /\ reports = <<>>
  /\ returned = <<>>
  /\ run = NoRun

\* parse_config, lines 107-133: one turn of the loop over the file's lines.
ConfReadLine(written) ==
  /\ conf.pc = "read"
  /\ \E result \in {parse_config_line(conf.section, conf.raw,
                                      written.text \o <<NEWLINE>>)} :
       IF result.ok
       THEN conf' = [conf EXCEPT !.lines = Append(@, written),
                                 !.section = result.val.section,
                                 !.raw = result.val.raw]
       ELSE conf' = [conf EXCEPT !.lines = Append(@, written),
                                 !.pc = "raised", !.exc = result.exc]
  /\ UNCHANGED <<self, lineno, log, entries, warnings, aborted, reports,
                 returned, run>>

\* parse_config, lines 135-202: the file is read; the Config is built, and
\* an aggregator is constructed with its rules, work hours and rates.
ConfLoad ==
  /\ conf.pc = "read"
  /\ \E result \in {parse_config_load(conf.raw)} :
       IF result.ok
       THEN /\ conf' = [conf EXCEPT !.pc = "loaded", !.config = result.val]
            /\ self' = UsageAggregator(result.val.cost_inference_rules, result.val.work_start, result.val.work_end, result.val.cost_default, result.val.cost_printer_rates, result.val.cost_label_rates)
       ELSE /\ conf' = [conf EXCEPT !.pc = "raised", !.exc = result.exc]
            /\ UNCHANGED self
  /\ UNCHANGED <<lineno, log, entries, warnings, aborted, reports, returned,
                 run>>

\* A call of _resolve_rate(label, queue) on that aggregator.
ResolveRate(label, queue) ==
  /\ conf.pc = "loaded"
  /\ conf' = [conf EXCEPT
                !.resolved = <<[label |-> label, queue |-> queue,
                                rate |-> _resolve_rate(self, label, queue)]>>]
  /\ UNCHANGED <<self, lineno, log, entries, warnings, aborted, reports,
                 returned, run>>

NextConf ==
  \/ \E written \in ConfLines :
       Len(conf.lines) < MaxConfLines /\ ConfReadLine(written)
  \/ ConfLoad
  \/ \E label \in RateLabels : \E queue \in RateQueues :
       ResolveRate(label, queue)

\* A configuration file parsed and the rates of its aggregator resolved.
SpecConf == ConfInit /\ [][NextConf]_vars

\* ----------------------------------------------------------- properties

\* In the properties below a line of log is the text parse_line is called
\* with: the inputs hold no line terminator of their own.

\* C1: parse_page_log never aborts, whatever the lines of the file.  Every
\* line parse_line fails on is skipped with a warning that names its
\* 1-based line number, the entries yielded are exactly the parseable lines
\* in file order (so a parseable line after a failing one is still
\* yielded), and with every yielded entry ingested totals.requests is the
\* number of parseable lines.
C1_ParsePageLogNeverAborts ==
  LET parseable(text) == text # <<>> /\ parse_line(text).ok
      failing(i) == log[i] # <<>> /\ ~parse_line(log[i]).ok
      yields(good) ==
        /\ entries = [i \in 1..Len(good) |-> parse_line(good[i]).val]
        /\ self.totals.requests = Len(good)
  IN  /\ ~aborted
      /\ yields(SelectSeq(log, parseable))
      /\ warnings = SelectSeq([i \in 1..Len(log) |-> i], failing)

\* A file whose first line is rejected and whose second line is parsed:
\* one warning for line 1, one entry, totals.requests = 1.
C1_Witness ==
  /\ log = <<LineInvalid, Header1 \o PayloadStd>>
  /\ warnings = <<1>>
  /\ Len(entries) = 1
  /\ entries[1].raw = Header1 \o PayloadStd
  /\ self.totals.requests = 1
  /\ ~aborted

\* The fields of a LogEntry.
LogEntryFields ==
  {"printer", "user", "job_id", "timestamp", "pages", "copies",
   "billing_code", "host", "job_name", "media", "sides", "raw"}

\* C2: for every line, parse_line returns a complete record (every field
\* of LogEntry set: the printer, the user and the raw line non-empty text,
\* the job id, pages and copies integers, the timestamp a datetime) or
\* raises ValueError, the type parse_page_log catches; it raises no other
\* exception.
C2_ParseLineCompleteOrValueError ==
  LET complete(entry, line) ==
        /\ DOMAIN entry = LogEntryFields
        /\ entry.printer # <<>> /\ entry.printer # None
        /\ entry.user # <<>> /\ entry.user # None
        /\ entry.job_id \in Nat
        /\ entry.timestamp # NoneDatetime
        /\ entry.timestamp.month \in 1..12
        /\ entry.pages \in Int
        /\ entry.copies \in Int
        /\ entry.raw = line
      settled(result, line) ==
        IF result.ok THEN complete(result.val, line)
        ELSE result.exc = "ValueError"
  IN  \A i \in 1..Len(log) :
        log[i] # <<>> => settled(parse_line(log[i]), log[i])

\* A file of two rejected lines: a legacy payload of two tokens and a
\* payload whose first token passes isdigit() and fails int().
C2_Witness ==
  /\ log = <<Header3 \o PayloadLegacyShort, Header3 \o PayloadSuperscript>>
  /\ warnings = <<1, 2>>
  /\ entries = <<>>
  /\ ~parse_line(log[1]).ok
  /\ ~parse_line(log[2]).ok

\* C3: every record parse_line returns has a page count >= 0 and a copy
\* count >= 1, in both payload dialects.
C3_PagesAndCopiesInRange ==
  \A i \in 1..Len(entries) : entries[i].pages >= 0 /\ entries[i].copies >= 1

\* C4: in every record parse_line returns, each of billing_code, host,
\* job_name, media and sides is None or a non-empty string with no
\* surrounding whitespace; none is "" or "-", and billing_code is not
\* "-none-".
C4_OptionalFieldsNormalized ==
  LET normalized(value) ==
        \/ value = None
        \/ /\ value # <<>>
           /\ value # <<"-">>
           /\ value[1] \notin Whitespace
           /\ value[Len(value)] \notin Whitespace
  IN  \A i \in 1..Len(entries) :
        /\ normalized(entries[i].billing_code)
        /\ normalized(entries[i].host)
        /\ normalized(entries[i].job_name)
        /\ normalized(entries[i].media)
        /\ normalized(entries[i].sides)
        /\ entries[i].billing_code # <<"-", "n", "o", "n", "e", "-">>

\* A record parsed from "-none-" and "-" placeholders, every optional
\* field None, beside a record whose optional fields are all text.
C4_Witness ==
  /\ Len(entries) = 2
  /\ entries[1].raw = Header4 \o PayloadPlaceholders
  /\ entries[1].billing_code = None /\ entries[1].host = None
  /\ entries[1].job_name = None /\ entries[1].media = None
  /\ entries[1].sides = None
  /\ entries[2].raw = Header1 \o PayloadBilling
  /\ entries[2].billing_code # None /\ entries[2].host # None
  /\ entries[2].job_name = <<"M", "y", " ", "R", "e", "p", "o", "r", "t",
                             ".", "P", "D", "F">>
  /\ entries[2].sides # None

\* C5: two build_report() calls with no ingest between them return reports
\* equal in every field, as each is when it is returned.
C5_BuildReportRepeatable ==
  \A i \in 1..Len(returned) : \A j \in 1..Len(returned) :
    returned[i].ingested = returned[j].ingested
      => returned[i].value = returned[j].value

\* Two reports built one after the other over two ingested records.
C5_Witness ==
  /\ Len(returned) = 2
  /\ returned[1].ingested = 2
  /\ returned[2].ingested = 2
  /\ returned[1].value.totals.requests = 2
  /\ returned[2].value.cost_stats # <<>>

\* C6: build_report() leaves the aggregator as it found it: the totals and
\* every counter, the nested per-label maps with their key sets included.
C6_BuildReportKeepsTallies ==
  [][reports' # reports => self' = self]_vars

\* A report built after two ingests, the nested per-label maps populated.
C6_Witness ==
  /\ Len(reports) >= 1
  /\ returned[Len(returned)].ingested = 2
  /\ self.cost_user_pages # <<>>
  /\ self.cost_queue_pages # <<>>
  /\ self.totals.requests = 2

\* C7: a report keeps the values it was returned with, its totals
\* included, whatever is ingested afterwards.
C7_ReportImmutable ==
  \A i \in 1..Len(reports) : view(reports[i], self) = returned[i].value

\* C8: every ingested record's page count lies in exactly one row of
\* JOB_BUCKETS and its copy count in exactly one row of COPY_BUCKETS, the
\* histograms hold no label but those tables', and the counts of each
\* histogram sum to totals.requests.
C8_BucketCoverage ==
  LET holds(b, value) ==
        /\ (b[1] = NoneInt \/ b[1][1] <= value)
        /\ (b[2] = NoneInt \/ value <= b[2][1])
      one_row(value, buckets) ==
        Cardinality({r \in 1..Len(buckets) : holds(buckets[r], value)}) = 1
      labelled(histogram, buckets) ==
        \A k \in 1..Len(histogram) :
          \E r \in 1..Len(buckets) : histogram[k][1] = buckets[r][3]
  IN  /\ \A i \in 1..Len(entries) :
           /\ one_row(entries[i].pages, JOB_BUCKETS)
           /\ one_row(entries[i].copies, COPY_BUCKETS)
      /\ labelled(self.job_histogram, JOB_BUCKETS)
      /\ labelled(self.copy_histogram, COPY_BUCKETS)
      /\ sum_values(self.job_histogram) = self.totals.requests
      /\ sum_values(self.copy_histogram) = self.totals.requests

\* C9: an ingested record that has a billing code is accumulated under
\* that billing code, whatever the inference rules; one that has none and
\* that no rule matches is accumulated under "unassigned".  Accumulated:
\* its pages are added to the label's page count and to the label's
\* per-user and per-queue counts, and no other label's counts change.
C9_ExplicitBillingWins ==
  [][entries' # entries =>
      LET adds(before, after, label, key, pages) ==
            /\ count_of(defaultdict_get(after, label), key)
                 = count_of(defaultdict_get(before, label), key) + pages
            /\ \A k \in 1..Len(after) :
                 after[k][1] # label
                   => has_key(before, after[k][1])
                      /\ defaultdict_get(before, after[k][1]) = after[k][2]
          accumulated(entry, label) ==
            /\ count_of(self'.cost_pages, label)
                 = count_of(self.cost_pages, label) + entry.pages
            /\ \A k \in 1..Len(self'.cost_pages) :
                 self'.cost_pages[k][1] # label
                   => count_of(self.cost_pages, self'.cost_pages[k][1])
                        = self'.cost_pages[k][2]
            /\ adds(self.cost_user_pages, self'.cost_user_pages, label,
                    entry.user, entry.pages)
            /\ adds(self.cost_queue_pages, self'.cost_queue_pages, label,
                    entry.printer, entry.pages)
          labelled(entry) ==
            /\ entry.billing_code # None
                 => accumulated(entry, entry.billing_code)
            /\ (entry.billing_code = None
                  /\ _infer_billing(self, entry) = None)
                 => accumulated(entry, S_unassigned)
      IN  labelled(entries'[Len(entries')])]_vars

\* Under rules that match it, a record with a billing code counted under
\* its billing code alone; under the same rules, a record with no billing
\* code that no rule matches counted under "unassigned".
C9_Witness ==
  /\ self.cost_rules # <<>>
  /\ Len(entries) = 2
  /\ entries[1].raw = Header1 \o PayloadBilling
  /\ _infer_billing(self, entries[1]) = <<"o", "p", "s">>
  /\ entries[2].raw = Header3 \o PayloadLegacyExtra
  /\ entries[2].billing_code = None
  /\ self.cost_pages =
       << <<entries[1].billing_code, 3>>, <<S_unassigned, 250>> >>

\* C10: no ingest lowers a tally: totals.requests, totals.pages and every
\* counter's value for every key, the nested per-label counters included.
C10_TalliesMonotone ==
  [][LET grows(before, after) ==
           \A k \in 1..Len(before) :
             count_of(after, before[k][1]) >= before[k][2]
         nested_grows(before, after) ==
           \A k \in 1..Len(before) :
             grows(before[k][2], defaultdict_get(after, before[k][1]))
     IN  /\ self'.totals.requests >= self.totals.requests
         /\ self'.totals.pages >= self.totals.pages
         /\ grows(self.queue_requests, self'.queue_requests)
         /\ grows(self.queue_pages, self'.queue_pages)
         /\ grows(self.queue_user_pages, self'.queue_user_pages)
         /\ grows(self.user_requests, self'.user_requests)
         /\ grows(self.user_pages, self'.user_pages)
         /\ grows(self.hourly, self'.hourly)
         /\ grows(self.hourly_pages, self'.hourly_pages)
         /\ grows(self.daily, self'.daily)
         /\ grows(self.daily_pages, self'.daily_pages)
         /\ grows(self.job_histogram, self'.job_histogram)
         /\ grows(self.copy_histogram, self'.copy_histogram)
         /\ grows(self.cost_pages, self'.cost_pages)
         /\ nested_grows(self.cost_user_pages, self'.cost_user_pages)
         /\ nested_grows(self.cost_queue_pages, self'.cost_queue_pages)
         /\ grows(self.client_pages, self'.client_pages)
         /\ grows(self.document_pages, self'.document_pages)
         /\ grows(self.media_pages, self'.media_pages)
         /\ grows(self.duplex_pages, self'.duplex_pages)]_vars

\* C11: in every report with at least one queue stat, each requests_pct
\* and each pages_pct lies in [0, 100], and the pages_pct of all queues sum
\* to 100 within 0.1 per entry.  (Percentages are in hundredths: 100 is
\* 10000 and 0.1 is 10.)
C11_QueuePercentages ==
  LET RECURSIVE sum_pages_pct(_)
      sum_pages_pct(stats) ==
        IF stats = <<>> THEN 0
        ELSE stats[1].pages_pct + sum_pages_pct(Tail(stats))
      within(total, n) == 10000 - 10 * n <= total /\ total <= 10000 + 10 * n
      sound(stats) ==
        /\ \A k \in 1..Len(stats) :
             /\ 0 <= stats[k].requests_pct /\ stats[k].requests_pct <= 10000
             /\ 0 <= stats[k].pages_pct /\ stats[k].pages_pct <= 10000
        /\ within(sum_pages_pct(stats), Len(stats))
  IN  \A i \in 1..Len(returned) :
        returned[i].value.queue_stats # <<>>
          => sound(returned[i].value.queue_stats)

\* C12: ingest completes for every record the parser produces, whichever
\* optional fields are absent: it leaves an aggregator with one request
\* more, having counted the pages of the record under the host and the
\* media, "unknown" for an absent one, under "unknown" for absent sides, and
\* under "unknown" for a job name that is absent or has no extension.
C12_IngestTotal ==
  [][Len(entries') = Len(entries) + 1 =>
       LET counted(before, after, label, pages) ==
             /\ has_key(after, label)
             /\ count_of(after, label) = count_of(before, label) + pages
           ingested(entry) ==
             /\ DOMAIN self' = DOMAIN self
             /\ self'.totals.requests = self.totals.requests + 1
             /\ counted(self.client_pages, self'.client_pages,
                        IF entry.host = None THEN S_unknown ELSE entry.host,
                        entry.pages)
             /\ counted(self.media_pages, self'.media_pages,
                        IF entry.media = None THEN S_unknown ELSE entry.media,
                        entry.pages)
             /\ entry.sides = None =>
                  counted(self.duplex_pages, self'.duplex_pages,
                          S_unknown, entry.pages)
             /\ (entry.job_name = None \/ ~contains(entry.job_name, <<".">>)) =>
                  counted(self.document_pages, self'.document_pages,
                          S_unknown, entry.pages)
       IN  ingested(entries'[Len(entries')])]_vars

\* A record with no host, job name, media and sides ingested, then one with
\* sides and a job name that has no extension.
C12_Witness ==
  /\ Len(entries) = 2
  /\ entries[1].host = None /\ entries[1].job_name = None
  /\ entries[1].media = None /\ entries[1].sides = None
  /\ entries[2].host = None /\ entries[2].job_name = <<"n", "o", "t", "e", "s">>
  /\ entries[2].sides # None
  /\ self.client_pages = <<<<S_unknown, entries[1].pages + entries[2].pages>>>>
  /\ self.document_pages = self.client_pages
  /\ self.media_pages = self.client_pages
  /\ self.duplex_pages =
       <<<<S_unknown, entries[1].pages>>,
         <<<<"s", "i", "m", "p", "l", "e", "x">>, entries[2].pages>>>>

\* C13: run_report constructs its aggregator from the configuration: the
\* cost inference rules, the work hours, the default rate and the per-queue
\* and per-label rate tables; the cost amounts of the report handed to the
\* output modules are those the configured rates give.
C13_AggregatorFromConfig ==
  LET configured(aggregator) ==
        [aggregator EXCEPT
           !.cost_default = run.config.cost_default,
           !.cost_printer_rates = run.config.cost_printer_rates,
           !.cost_label_rates = run.config.cost_label_rates]
  IN  run.pc # "none" =>
        /\ self.cost_rules = run.config.cost_inference_rules
        /\ self.work_start = run.config.work_start
        /\ self.work_end = run.config.work_end
        /\ self.cost_default = run.config.cost_default
        /\ self.cost_printer_rates = run.config.cost_printer_rates
        /\ self.cost_label_rates = run.config.cost_label_rates
        /\ \A i \in 1..Len(returned) :
             returned[i].value.cost_stats = _build_cost_stats(configured(self))

\* C14: when "email" is in the configured output list, in any letter case
\* and with spaces around it, run_report renders no other module after the
\* email module, and renders the email module only when every other
\* configured module has been rendered; the other modules are rendered in
\* the configured order.
C14_EmailRenderedLast ==
  LET is_email(name) == lower(strip(name)) = S_email
      others(names) ==
        SelectSeq(names, LAMBDA name : strip(name) # <<>> /\ ~is_email(name))
      cleaned(names) == [i \in 1..Len(names) |-> lower(strip(names[i]))]
      in_order(done, configured) ==
        /\ Len(done) <= Len(configured)
        /\ done = SubSeq(cleaned(configured), 1, Len(done))
      email_last(rendered, configured) ==
        \A i \in 1..Len(rendered) :
          rendered[i] = S_email =>
            /\ \A j \in (i + 1)..Len(rendered) : rendered[j] = S_email
            /\ Len(others(rendered)) = Len(others(configured))
  IN  run.pc # "none" =>
        /\ in_order(others(run.rendered), others(run.config.outputs))
        /\ (\E i \in 1..Len(run.config.outputs) :
              is_email(run.config.outputs[i]))
             => email_last(run.rendered, run.config.outputs)
        /\ run.pc = "returned" =>
             others(run.rendered) = cleaned(others(run.config.outputs))

\* A run that has returned, of a list with "email" twice, neither time
\* last: the three other modules rendered in their order, then email.
C14_Witness ==
  /\ run.pc = "returned"
  /\ run.config.outputs = OutputsEmailTwice
  /\ run.rendered =
       << <<"h", "t", "m", "l">>, <<"c", "s", "v">>, <<"c", "l", "i">>,
          S_email >>

\* C15: run_report ingests a yielded record if and only if its calendar
\* date d has start_date <= d <= end_date, a bound that is None not applied;
\* so the report counts every record in the range and only those, and each
\* of its daily keys is a date in the range.
C15_DateRange ==
  [][LET le(a, b) ==
           \/ a.year < b.year
           \/ a.year = b.year /\ a.month < b.month
           \/ a.year = b.year /\ a.month = b.month /\ a.day <= b.day
         in_range(d) ==
           /\ run.start_date # NoneDatetime => le(run.start_date, d)
           /\ run.end_date # NoneDatetime => le(d, run.end_date)
         iso(d) ==
           zero_pad(d.year, 4) \o <<"-">> \o zero_pad(d.month, 2)
             \o <<"-">> \o zero_pad(d.day, 2)
         key_in_range(key) ==
           /\ run.start_date # NoneDatetime => ~str_lt(key, iso(run.start_date))
           /\ run.end_date # NoneDatetime => ~str_lt(iso(run.end_date), key)
         kept(yielded) ==
           SelectSeq(yielded, LAMBDA entry : in_range(date_of(entry.timestamp)))
         ingested(entry) ==
           IF in_range(date_of(entry.timestamp))
           THEN self' = ingest(self, entry)
           ELSE self' = self
         reported(report) ==
           /\ report.totals.requests = Len(kept(entries))
           /\ \A k \in 1..Len(report.daily) : key_in_range(report.daily[k].key)
           /\ \A k \in 1..Len(kept(entries)) :
                \E j \in 1..Len(report.daily) :
                  report.daily[j].key = iso(date_of(kept(entries)[k].timestamp))
     IN  run.pc # "none" =>
           /\ Len(entries') = Len(entries) + 1 =>
                ingested(entries'[Len(entries')])
           /\ Len(returned') = Len(returned) + 1 =>
                reported(returned'[Len(returned')].value)]_vars

\* A report over the range 2025-03-31 to 2025-04-01 of a log with a record
\* of 2025-03-31, counted, and a record of 2024-01-01, left out.
C15_Witness ==
  /\ run.pc = "render"
  /\ run.start_date = date(2025, 3, 31)
  /\ run.end_date = date(2025, 4, 1)
  /\ Len(entries) = 2
  /\ date_of(entries[1].timestamp) = date(2025, 3, 31)
  /\ date_of(entries[2].timestamp) = date(2024, 1, 1)
  /\ returned[1].value.totals.requests = 1
  /\ Len(returned[1].value.daily) = 1

\* C16: with email enabled, EmailOutput.render returns normally whether
\* the send fails or the report is empty: no exception leaves run_report
\* from the email module, which comes after the other modules' output, and
\* run_report returns the attachment list.
C16_EmailNeverAborts ==
  run.pc = "raised" =>
    \/ run.rendered = <<>>
    \/ run.rendered[Len(run.rendered)] # S_email

\* C17: the queue stats of every report are in descending order of pages:
\* of two consecutive entries the first has at least the pages of the
\* second.
C17_QueueStatsDescending ==
  \A i \in 1..Len(returned) :
    \A k \in 1..(Len(returned[i].value.queue_stats) - 1) :
      returned[i].value.queue_stats[k].pages
        >= returned[i].value.queue_stats[k + 1].pages

\* Printer01 with 5 pages ingested before Printer02 with 10: the report
\* has Printer02 first.
C17_Witness ==
  /\ Len(entries) = 2
  /\ entries[1].printer = <<"P", "r", "i", "n", "t", "e", "r", "0", "1">>
  /\ entries[1].pages = 5
  /\ entries[2].pages = 10
  /\ Len(returned) >= 1
  /\ Len(returned[Len(returned)].value.queue_stats) = 2
  /\ returned[Len(returned)].value.queue_stats[1].queue =
       <<"P", "r", "i", "n", "t", "e", "r", "0", "2">>
  /\ returned[Len(returned)].value.queue_stats[1].pages = 10
  /\ returned[Len(returned)].value.queue_stats[2].queue = entries[1].printer
  /\ returned[Len(returned)].value.queue_stats[2].pages = 5

\* C18: a record without billing code is counted under the label of the
\* first rule, in declaration order, that has a token in the haystack: the
\* tokens of a rule are the pieces of its text between ',', '|' and ';',
\* trimmed and lower-cased, the empty ones dropped; the haystack is the
\* queue, the user, the job name and the host, lower-cased.  With no such
\* rule the record is counted under "unassigned".
C18_FirstMatchingRuleWins ==
  [][LET delimiter(c) == c \in {",", "|", ";"}
         pieces(raw) ==
           { SubSeq(raw, p[1], p[2]) :
               p \in { q \in (1..Len(raw)) \X (1..Len(raw)) :
                         /\ q[1] <= q[2]
                         /\ \A k \in q[1]..q[2] : ~delimiter(raw[k])
                         /\ (q[1] = 1 \/ delimiter(raw[q[1] - 1]))
                         /\ (q[2] = Len(raw) \/ delimiter(raw[q[2] + 1])) } }
         tokens(raw) == { lower(strip(piece)) : piece \in pieces(raw) } \ {<<>>}
         text(field) == IF field = None THEN <<>> ELSE field
         haystack(entry) ==
           lower(entry.printer \o <<" ">> \o entry.user \o <<" ">>
                   \o text(entry.job_name) \o <<" ">> \o text(entry.host))
         matches(r, entry) ==
           \E token \in tokens(self.cost_rules[r][2]) :
             contains(haystack(entry), token)
         label(entry) ==
           IF \E r \in 1..Len(self.cost_rules) : matches(r, entry)
           THEN self.cost_rules[CHOOSE r \in 1..Len(self.cost_rules) :
                  matches(r, entry) /\ \A q \in 1..(r - 1) : ~matches(q, entry)][1]
           ELSE S_unassigned
         counted(entry) ==
           /\ has_key(self'.cost_pages, label(entry))
           /\ count_of(self'.cost_pages, label(entry))
                = count_of(self.cost_pages, label(entry)) + entry.pages
           /\ \A k \in 1..Len(self'.cost_pages) :
                self'.cost_pages[k][1] # label(entry) =>
                  /\ has_key(self.cost_pages, self'.cost_pages[k][1])
                  /\ count_of(self.cost_pages, self'.cost_pages[k][1])
                       = self'.cost_pages[k][2]
     IN  (/\ Len(entries') = Len(entries) + 1
          /\ self'.totals.requests = self.totals.requests + 1
          /\ entries'[Len(entries')].billing_code = None)
         => counted(entries'[Len(entries')])]_vars

\* Under the rules "blank" (no token), "ops" and "front": a record that
\* "ops" and "front" both match, counted under "ops"; then one that only
\* "front" matches.
C18_Witness ==
  /\ self.cost_rules = CostRules
  /\ Len(entries) = 2
  /\ entries[1].raw = Header1 \o PayloadStd
  /\ entries[2].raw = Header4 \o PayloadPlaceholders
  /\ entries[1].billing_code = None /\ entries[2].billing_code = None
  /\ self.cost_pages =
       << << <<"o", "p", "s">>, 5 >>, << <<"f", "r", "o", "n", "t">>, 12 >> >>

\* C19: for every label and queue, _resolve_rate returns the rate
\* configured for the label, written in any letter case; with none, the
\* rate configured for the queue, written in any letter case; with none,
\* the default rate, which is 0 when none is configured.  Of two rates
\* configured for one name the later stands.
C19_RatePrecedence ==
  LET same_letters(a, b) ==
        /\ Len(a) = Len(b)
        /\ \A k \in 1..Len(a) : lower_char(a[k]) = lower_char(b[k])
      in_costs(i) == \E h \in 1..(i - 1) : conf.lines[h].kind = "section"
      configured(kind, name) ==
        { i \in 1..Len(conf.lines) :
            /\ in_costs(i)
            /\ conf.lines[i].kind = kind
            /\ same_letters(conf.lines[i].name, name) }
      latest(found) ==
        conf.lines[CHOOSE i \in found : \A j \in found : j <= i].rate
      expected(label, queue) ==
        IF configured("label", label) # {}
          THEN latest(configured("label", label))
        ELSE IF configured("printer", queue) # {}
          THEN latest(configured("printer", queue))
        ELSE IF configured("default", <<>>) # {}
          THEN latest(configured("default", <<>>))
        ELSE 0
  IN  \A k \in 1..Len(conf.resolved) :
        conf.resolved[k].rate
          = expected(conf.resolved[k].label, conf.resolved[k].queue)

\* Under [costs], a rate for the label ACCT1 and one for the queue
\* Printer01: the label Acct1 on the queue PRINTER01 resolved to the
\* label's rate.
C19_Witness ==
  /\ conf.pc = "loaded"
  /\ Len(conf.lines) = 3
  /\ conf.lines[1].kind = "section"
  /\ conf.lines[2].kind = "printer" /\ conf.lines[2].rate = 20
  /\ conf.lines[3].kind = "label" /\ conf.lines[3].rate = 100
  /\ conf.lines[3].name = <<"A", "C", "C", "T", "1">>
  /\ Len(conf.resolved) = 1
  /\ conf.resolved[1].label = <<"A", "c", "c", "t", "1">>
  /\ conf.resolved[1].queue = <<"P", "R", "I", "N", "T", "E", "R", "0", "1">>
  /\ conf.resolved[1].rate = 100

\* C20: in the report build_report returns, the amount of a cost label is
\* 0 when the aggregator has no default rate, no queue rate and no label
\* rate; otherwise it is the sum, over the queues with pages under the
\* label, of those pages times the rate resolved for the label and the
\* queue.
C20_CostAmount ==
  [][LET RECURSIVE total(_, _)
         total(label, queue_pages) ==
           IF queue_pages = <<>> THEN 0
           ELSE total(label, SubSeq(queue_pages, 1, Len(queue_pages) - 1))
                  + queue_pages[Len(queue_pages)][2]
                      * _resolve_rate(self, label,
                                      queue_pages[Len(queue_pages)][1])
         no_rate ==
           /\ self.cost_default = 0
           /\ self.cost_printer_rates = <<>>
           /\ self.cost_label_rates = <<>>
         amount(label) ==
           IF no_rate THEN 0
           ELSE total(label, defaultdict_get(self.cost_queue_pages, label))
         priced(cost_stats) ==
           /\ Len(cost_stats) = Len(self.cost_pages)
           /\ \A k \in 1..Len(cost_stats) :
                cost_stats[k].amount = amount(cost_stats[k].label)
     IN  Len(returned') = Len(returned) + 1 =>
           priced(returned'[Len(returned')].value.cost_stats)]_vars

\* A report with a label that has pages on two queues, both at the rate of
\* the queue "printer01": 5 and 12 pages at 20.
C20_Witness ==
  /\ Len(returned) >= 1
  /\ Len(returned[1].value.cost_stats) = 1
  /\ returned[1].value.cost_stats[1].label = <<"f", "r", "o", "n", "t">>
  /\ returned[1].value.cost_stats[1].per_queue =
       << << <<"p", "r", "i", "n", "t", "e", "r", "0", "1">>, 12 >>,
          << <<"P", "r", "i", "n", "t", "e", "r", "0", "1">>, 5 >> >>
  /\ returned[1].value.cost_stats[1].amount = 340

\* C21: after one ingest or more, totals.first_event is the earliest and
\* totals.last_event the latest of the ingested timestamps, by instant; of
\* several records at the earliest (latest) instant the first ingested one
\* is kept; first_event is never after last_event.
C21_FirstAndLastEvent ==
  LET earlier(a, b) ==
        \/ utc_minutes(a) < utc_minutes(b)
        \/ utc_minutes(a) = utc_minutes(b) /\ a.second < b.second
      stamp(i) == entries[i].timestamp
      is_first(i) ==
        /\ self.totals.first_event = stamp(i)
        /\ \A j \in 1..Len(entries) : ~earlier(stamp(j), stamp(i))
        /\ \A j \in 1..(i - 1) : earlier(stamp(i), stamp(j))
      is_last(i) ==
        /\ self.totals.last_event = stamp(i)
        /\ \A j \in 1..Len(entries) : ~earlier(stamp(i), stamp(j))
        /\ \A j \in 1..(i - 1) : earlier(stamp(j), stamp(i))
  IN  entries # <<>> =>
        /\ \E i \in 1..Len(entries) : is_first(i)
        /\ \E i \in 1..Len(entries) : is_last(i)
        /\ ~earlier(self.totals.last_event, self.totals.first_event)

\* 09:03:11 -0300 ingested, then the same instant written 12:03:11 +0000,
\* then 03:00:00 +0900 of the same day, which is earlier than both: the
\* last event is the first record's, the first event the third's.
C21_Witness ==
  /\ Len(entries) = 3
  /\ entries[1].raw = Header1 \o PayloadStd
  /\ entries[2].raw = Header6 \o PayloadMedia
  /\ entries[3].raw = Header5 \o PayloadStd
  /\ self.totals.last_event = entries[1].timestamp
  /\ self.totals.last_event # entries[2].timestamp
  /\ self.totals.first_event = entries[3].timestamp

\* C22: the queue_user_stats of every report are in strictly ascending
\* order of (-pages, queue, user), one row for every (queue, user) pair of
\* the records ingested, with the pages of the pair's records summed: the
\* list is the one arrangement of those tallies, whatever the order the
\* records were ingested in.
C22_QueueUserStatsOrder ==
  \A k \in 1..Len(reports) :
    LET before(a, b) ==
          \/ a.pages > b.pages
          \/ a.pages = b.pages /\ str_lt(a.queue, b.queue)
          \/ a.pages = b.pages /\ a.queue = b.queue /\ str_lt(a.user, b.user)
        ordered(rows) ==
          \A i \in 1..(Len(rows) - 1) : before(rows[i], rows[i + 1])
        pages_of(queue, user, n) ==
          LET RECURSIVE total(_)
              total(i) ==
                IF i = 0 THEN 0
                ELSE total(i - 1)
                       + (IF entries[i].printer = queue /\ entries[i].user = user
                          THEN entries[i].pages ELSE 0)
          IN  total(n)
        tallies(rows, n) ==
          /\ \A i \in 1..Len(rows) :
               /\ \E e \in 1..n : entries[e].printer = rows[i].queue
                                    /\ entries[e].user = rows[i].user
               /\ rows[i].pages = pages_of(rows[i].queue, rows[i].user, n)
          /\ \A e \in 1..n : \E i \in 1..Len(rows) :
               entries[e].printer = rows[i].queue /\ entries[e].user = rows[i].user
        holds(rows, n) == ordered(rows) /\ tallies(rows, n)
    IN  holds(reports[k].queue_user_stats, returned[k].ingested)

\* A report of three records: Printer01/alice and Printer02/alice have 5
\* pages each and Printer02 was ingested first, Printer01/bob has 10.
C22_Witness ==
  /\ Len(entries) = 3
  /\ entries[1].raw = Header5 \o PayloadStd
  /\ entries[2].raw = Header1 \o PayloadStd
  /\ entries[3].raw = Header6 \o PayloadMedia
  /\ Len(reports) = 1
  /\ returned[1].ingested = 3
  /\ Len(reports[1].queue_user_stats) = 3
  /\ reports[1].queue_user_stats[1].user = <<"b", "o", "b">>
  /\ reports[1].queue_user_stats[2].queue
       = <<"P", "r", "i", "n", "t", "e", "r", "0", "1">>
  /\ reports[1].queue_user_stats[3].queue
       = <<"P", "r", "i", "n", "t", "e", "r", "0", "2">>

\* C23: a line with a well-formed header whose first payload token is made
\* of decimal digits only is rejected with ValueError when the payload has
\* fewer than 3 tokens; with 3 tokens or more it parses whenever the second
\* token is an integer literal, to pages = the first token, copies = the
\* second, billing = the third normalized, and host, job name, media and
\* sides None, whatever tokens follow the third.
C23_LegacyDialect ==
  LET numeric(token) ==
        token # <<>> /\ \A k \in 1..Len(token) : token[k] \in AsciiDigits
      fields(entry, tokens) ==
        /\ entry.pages = decimal_value(tokens[1])
        /\ entry.copies = int(tokens[2]).val
        /\ entry.billing_code = normalize_billing(tokens[3])
        /\ entry.host = None /\ entry.job_name = None
        /\ entry.media = None /\ entry.sides = None
      read(result, tokens) ==
        IF Len(tokens) >= 3 /\ int(tokens[2]).ok
        THEN result.ok /\ fields(result.val, tokens)
        ELSE ~result.ok /\ result.exc = "ValueError"
      legacy(line, match) ==
        (/\ match.matched
         /\ int(match.job_id).ok
         /\ strptime(match.timestamp).ok
         /\ split(match.rest) # <<>>
         /\ numeric(split(match.rest)[1]))
          => read(parse_line(line), split(match.rest))
  IN  \A i \in 1..Len(log) : legacy(log[i], LINE_HEADER(log[i]))

\* "250 101 - extra tokens" read as 250 pages, 101 copies and no billing
\* code, and "7 2" rejected.
C23_Witness ==
  /\ log = <<Header3 \o PayloadLegacyExtra, Header3 \o PayloadLegacyShort>>
  /\ Len(entries) = 1
  /\ entries[1].pages = 250
  /\ entries[1].copies = 101
  /\ entries[1].billing_code = None
  /\ entries[1].host = None
  /\ warnings = <<2>>

\* C24: a line with a well-formed header whose first payload token is not
\* a decimal number is rejected with ValueError when that token is not
\* "total" or "page" in any letter case, and when fewer than three tokens
\* t1 ... tn follow the keyword, the page count and the billing token;
\* otherwise, the page count being an integer literal, it parses to
\* host = t1, media = t(n-1), sides = tn and job name = t2 ... t(n-2)
\* joined with single spaces, None when n = 3, each "-" read as None.
C24_StandardDialect ==
  LET numeric(token) ==
        token # <<>> /\ \A k \in 1..Len(token) : token[k] \in AsciiDigits
      optional(value) == IF value = <<"-">> THEN None ELSE value
      RECURSIVE spaced(_)
      spaced(words) ==
        IF Len(words) = 1 THEN words[1]
        ELSE words[1] \o <<" ">> \o spaced(Tail(words))
      fields(entry, t, n) ==
        /\ entry.pages = int(t[2]).val
        /\ entry.host = optional(t[4])
        /\ entry.media = optional(t[n + 2])
        /\ entry.sides = optional(t[n + 3])
        /\ entry.job_name = IF n = 3 THEN None
                            ELSE optional(spaced(SubSeq(t, 5, n + 1)))
      read(result, t) ==
        IF /\ lower(t[1]) \in {<<"t", "o", "t", "a", "l">>, <<"p", "a", "g", "e">>}
           /\ Len(t) - 3 >= 3
           /\ int(t[2]).ok
        THEN result.ok /\ fields(result.val, t, Len(t) - 3)
        ELSE ~result.ok /\ result.exc = "ValueError"
      standard(line, match) ==
        (/\ match.matched
         /\ int(match.job_id).ok
         /\ strptime(match.timestamp).ok
         /\ split(match.rest) # <<>>
         /\ ~numeric(split(match.rest)[1]))
          => read(parse_line(line), split(match.rest))
  IN  \A i \in 1..Len(log) : standard(log[i], LINE_HEADER(log[i]))

\* "total 3 PROJECT123 192.168.1.1 My Report.PDF - two-sided-long-edge"
\* read with the job name "My Report.PDF", and "total 5 - 192.168.1.1
\* doc.pdf", two tokens after the billing token, rejected.
C24_Witness ==
  /\ log = <<Header1 \o PayloadBilling, Header1 \o PayloadNoMedia>>
  /\ Len(entries) = 1
  /\ entries[1].host = <<"1", "9", "2", ".", "1", "6", "8", ".", "1", ".", "1">>
  /\ entries[1].job_name
       = <<"M", "y", " ", "R", "e", "p", "o", "r", "t", ".", "P", "D", "F">>
  /\ entries[1].media = None
  /\ entries[1].sides # None
  /\ warnings = <<2>>

\* C25: in every report the hourly entries are in strictly ascending order
\* of key, one for each hour of the records ingested, with within_hours
\* true exactly when work_start <= hour <= work_end; the daily entries are
\* in strictly ascending order of key, one for each day of the records
\* ingested, with within_hours None.
C25_TemporalPoints ==
  \A k \in 1..Len(reports) :
    LET hour_key(e) == zero_pad(entries[e].timestamp.hour, 2) \o <<":", "0", "0">>
        day_key(e) ==
          zero_pad(entries[e].timestamp.year, 4) \o <<"-">>
            \o zero_pad(entries[e].timestamp.month, 2) \o <<"-">>
            \o zero_pad(entries[e].timestamp.day, 2)
        ascending(rows) ==
          \A i \in 1..(Len(rows) - 1) : str_lt(rows[i].key, rows[i + 1].key)
        hourly(rows, n) ==
          /\ ascending(rows)
          /\ \A e \in 1..n : \E i \in 1..Len(rows) : rows[i].key = hour_key(e)
          /\ \A i \in 1..Len(rows) : \E e \in 1..n :
               /\ rows[i].key = hour_key(e)
               /\ rows[i].within_hours \in BOOLEAN
               /\ rows[i].within_hours
                    <=> (self.work_start <= entries[e].timestamp.hour
                           /\ entries[e].timestamp.hour <= self.work_end)
        daily(rows, n) ==
          /\ ascending(rows)
          /\ \A e \in 1..n : \E i \in 1..Len(rows) : rows[i].key = day_key(e)
          /\ \A i \in 1..Len(rows) :
               /\ \E e \in 1..n : rows[i].key = day_key(e)
               /\ rows[i].within_hours = NoneBool
    IN  /\ hourly(reports[k].hourly, returned[k].ingested)
        /\ daily(reports[k].daily, returned[k].ingested)

\* Work hours 9 to 10: a record of 10:00 on 1 April ingested, then one of
\* 23:30 on 31 March.  The hour 10 is within hours, the hour 23 is not, and
\* the daily list starts with 31 March.
C25_Witness ==
  /\ self.work_start = 9 /\ self.work_end = 10
  /\ Len(entries) = 2
  /\ entries[1].raw = Header2 \o PayloadMedia
  /\ entries[2].raw = Header4 \o PayloadZero
  /\ Len(reports) = 1
  /\ returned[1].ingested = 2
  /\ Len(reports[1].hourly) = 2
  /\ reports[1].hourly[1].key = <<"1", "0", ":", "0", "0">>
  /\ reports[1].hourly[1].within_hours = TRUE
  /\ reports[1].hourly[2].within_hours = FALSE
  /\ Len(reports[1].daily) = 2
  /\ reports[1].daily[1].key
       = <<"2", "0", "2", "5", "-", "0", "3", "-", "3", "1">>

\* C26: in every report, job_buckets and copy_buckets are empty when no
\* record was ingested; otherwise each holds one row for every bucket label
\* that a record ingested fell into and no other row, with request_count
\* the number of those records (never 0) and pct_requests that number as a
\* percentage of the records ingested, rounded to two places; the rows are
\* in strictly ascending order of label as strings.
C26_BucketSection ==
  \A k \in 1..Len(reports) :
    LET section(rows, labels) ==
          /\ labels = <<>> => rows = <<>>
          /\ \A e \in 1..Len(labels) :
               \E i \in 1..Len(rows) : rows[i].label = labels[e]
          /\ \A i \in 1..Len(rows) :
               /\ rows[i].request_count >= 1
               /\ rows[i].request_count
                    = Cardinality({e \in 1..Len(labels) :
                                     labels[e] = rows[i].label})
               /\ rows[i].pct_requests
                    = round2(100 * rows[i].request_count, Len(labels))
          /\ \A i \in 1..(Len(rows) - 1) :
               str_lt(rows[i].label, rows[i + 1].label)
    IN  /\ section(reports[k].job_buckets,
                   [e \in 1..returned[k].ingested |->
                     _bucketize(entries[e].pages, JOB_BUCKETS)])
        /\ section(reports[k].copy_buckets,
                   [e \in 1..returned[k].ingested |->
                     _bucketize(entries[e].copies, COPY_BUCKETS)])

\* A record of 2 copies ingested, then one of 101 copies: the copy buckets
\* are "100+" then "2", half of the requests each.
C26_Witness ==
  /\ Len(entries) = 2
  /\ entries[1].copies = 2
  /\ entries[2].copies = 101
  /\ Len(reports) = 1
  /\ returned[1].ingested = 2
  /\ Len(reports[1].copy_buckets) = 2
  /\ reports[1].copy_buckets[1].label = <<"1", "0", "0", "+">>
  /\ reports[1].copy_buckets[2].label = <<"2">>
  /\ reports[1].copy_buckets[1].pct_requests = 5000
  /\ reports[1].copy_buckets[1].request_count = 1

\* C27: a report built before any record is ingested has totals of 0
\* requests and 0 pages, no first or last event, and every list empty; a
\* report built after records whose page counts total 0 has pages_pct = 0
\* in every queue stat.
C27_NoDataYieldsZeros ==
  \A k \in 1..Len(reports) :
    LET RECURSIVE total_pages(_)
        total_pages(n) ==
          IF n = 0 THEN 0 ELSE total_pages(n - 1) + entries[n].pages
        empty(report) ==
          /\ report.totals = [requests |-> 0, pages |-> 0,
                              first_event |-> NoneDatetime,
                              last_event |-> NoneDatetime]
          /\ \A field \in DOMAIN report \ {"totals"} : report[field] = <<>>
        zero_pages(report) ==
          \A i \in 1..Len(report.queue_stats) :
            report.queue_stats[i].pages_pct = 0
        holds(report, n) ==
          /\ n = 0 => empty(report)
          /\ (n > 0 /\ total_pages(n) = 0) => zero_pages(report)
    IN  holds(returned[k].value, returned[k].ingested)

\* C28: after any sequence of ingest calls, the counts of queue_requests,
\* user_requests, hourly and daily each sum to totals.requests; the counts
\* of queue_pages, queue_user_pages, user_pages, hourly_pages, daily_pages,
\* cost_pages, client_pages, document_pages, media_pages and duplex_pages
\* each sum to totals.pages; and for every cost label the counts of
\* cost_user_pages[label] and of cost_queue_pages[label] each sum to
\* cost_pages[label].
C28_Conservation ==
  LET RECURSIVE total(_)
      total(c) ==
        IF c = <<>> THEN 0
        ELSE c[Len(c)][2] + total(SubSeq(c, 1, Len(c) - 1))
      nested(d, label) ==
        total(IF \E i \in 1..Len(d) : d[i][1] = label
              THEN d[CHOOSE i \in 1..Len(d) : d[i][1] = label][2]
              ELSE <<>>)
  IN  /\ total(self.queue_requests) = self.totals.requests
      /\ total(self.user_requests) = self.totals.requests
      /\ total(self.hourly) = self.totals.requests
      /\ total(self.daily) = self.totals.requests
      /\ total(self.queue_pages) = self.totals.pages
      /\ total(self.queue_user_pages) = self.totals.pages
      /\ total(self.user_pages) = self.totals.pages
      /\ total(self.hourly_pages) = self.totals.pages
      /\ total(self.daily_pages) = self.totals.pages
      /\ total(self.cost_pages) = self.totals.pages
      /\ total(self.client_pages) = self.totals.pages
      /\ total(self.document_pages) = self.totals.pages
      /\ total(self.media_pages) = self.totals.pages
      /\ total(self.duplex_pages) = self.totals.pages
      /\ \A i \in 1..Len(self.cost_pages) :
           /\ nested(self.cost_user_pages, self.cost_pages[i][1])
                = self.cost_pages[i][2]
           /\ nested(self.cost_queue_pages, self.cost_pages[i][1])
                = self.cost_pages[i][2]

\* Three records ingested, 20 pages in all: two on the queue Printer01, by
\* alice and by bob, both under one cost label.
C28_Witness ==
  /\ Len(entries) = 3
  /\ self.totals.requests = 3
  /\ self.totals.pages = 20
  /\ Len(self.queue_requests) = 2
  /\ Len(self.user_requests) = 2
  /\ \E i \in 1..Len(self.cost_user_pages) :
       /\ Len(self.cost_user_pages[i][2]) = 2
       /\ self.cost_user_pages[i][2][1][2] > 0
       /\ self.cost_user_pages[i][2][2][2] > 0

\* C29: the records ingested, ingested in any other order by a new
\* aggregator of the same configuration, give the same totals.requests and
\* totals.pages, the same instants as first_event and last_event, and in
\* every counter the same keys with the same values.
C29_OrderIndependent ==
  LET mapping(c) == {c[i] : i \in 1..Len(c)}
      nested(d) == {<<d[i][1], mapping(d[i][2])>> : i \in 1..Len(d)}
      instant(a, b) ==
        IF a = NoneDatetime \/ b = NoneDatetime THEN a = b
        ELSE utc_minutes(a) = utc_minutes(b) /\ a.second = b.second
      same(a, b) ==
        /\ a.totals.requests = b.totals.requests
        /\ a.totals.pages = b.totals.pages
        /\ instant(a.totals.first_event, b.totals.first_event)
        /\ instant(a.totals.last_event, b.totals.last_event)
        /\ \A counter \in
               {"queue_requests", "queue_pages", "queue_user_pages",
                "user_requests", "user_pages", "hourly", "hourly_pages",
                "daily", "daily_pages", "job_histogram", "copy_histogram",
                "cost_pages", "client_pages", "document_pages",
                "media_pages", "duplex_pages"} :
             mapping(a[counter]) = mapping(b[counter])
        /\ nested(a.cost_user_pages) = nested(b.cost_user_pages)
        /\ nested(a.cost_queue_pages) = nested(b.cost_queue_pages)
  IN  \A p \in Permutations(1..Len(entries)) :
        same(self, ingest_all(configured_as(self),
                              [i \in 1..Len(entries) |-> entries[p[i]]]))

\* 12:03:11 +0000 ingested, then 09:03:11 -0300, the same instant, then
\* 03:00:00 +0900: last_event is the first record's timestamp, where
\* another order leaves the second record's, and Printer01 is the first
\* key of queue_pages, where another order has Printer02 first.
C29_Witness ==
  /\ Len(entries) = 3
  /\ entries[1].raw = Header6 \o PayloadMedia
  /\ entries[2].raw = Header1 \o PayloadStd
  /\ entries[3].raw = Header5 \o PayloadStd
  /\ self.totals.last_event = entries[1].timestamp
  /\ self.totals.last_event # entries[2].timestamp
  /\ self.totals.first_event = entries[3].timestamp
  /\ self.queue_pages
       = << <<entries[1].printer, 15>>, <<entries[3].printer, 5>> >>

\* C30: a rule whose text holds nothing but ',', '|', ';' and whitespace
\* labels no record: its label is a key of cost_pages only when a record
\* carries it as billing code.  A record without billing code is counted
\* under a rule's label only when a non-empty token of that rule, trimmed
\* and lower-cased, is in the record's haystack, and under "unassigned"
\* otherwise.
C30_BlankRuleNeverMatches ==
  LET delimiter(c) == c \in {",", "|", ";"}
      blank(raw) ==
        \A k \in 1..Len(raw) : delimiter(raw[k]) \/ raw[k] \in Whitespace
      pieces(raw) ==
        { SubSeq(raw, p[1], p[2]) :
            p \in { q \in (1..Len(raw)) \X (1..Len(raw)) :
                      /\ q[1] <= q[2]
                      /\ \A k \in q[1]..q[2] : ~delimiter(raw[k])
                      /\ (q[1] = 1 \/ delimiter(raw[q[1] - 1]))
                      /\ (q[2] = Len(raw) \/ delimiter(raw[q[2] + 1])) } }
      text(field) == IF field = None THEN <<>> ELSE field
      haystack(entry) ==
        lower(entry.printer \o <<" ">> \o entry.user \o <<" ">>
                \o text(entry.job_name) \o <<" ">> \o text(entry.host))
      matches(raw, entry) ==
        \E piece \in pieces(raw) :
          /\ strip(piece) # <<>>
          /\ contains(haystack(entry), lower(strip(piece)))
      inferred(label, entry) ==
        /\ label # None =>
             \E r \in 1..Len(self.cost_rules) :
               /\ self.cost_rules[r][1] = label
               /\ ~blank(self.cost_rules[r][2])
               /\ matches(self.cost_rules[r][2], entry)
        /\ label = None =>
             \A r \in 1..Len(self.cost_rules) :
               ~matches(self.cost_rules[r][2], entry)
        /\ has_key(self.cost_pages,
                   IF label = None THEN S_unassigned ELSE label)
  IN  /\ \A i \in 1..Len(entries) :
           entries[i].billing_code = None =>
             inferred(_infer_billing(self, entries[i]), entries[i])
      /\ \A r \in 1..Len(self.cost_rules) :
           (/\ blank(self.cost_rules[r][2])
            /\ has_key(self.cost_pages, self.cost_rules[r][1]))
             => \E i \in 1..Len(entries) :
                  entries[i].billing_code = self.cost_rules[r][1]

\* Under the rules "blank" (" , ; "), "ops" and "front" ("printer01;
\* notes,"): a record of Q1 and dave without billing code, counted under
\* "unassigned", and one of printer01, counted under "front".
C30_Witness ==
  /\ Len(self.cost_rules) = 3
  /\ self.cost_rules[1][2] = <<" ", ",", " ", ";", " ">>
  /\ Len(entries) = 2
  /\ entries[1].raw = Header3 \o PayloadLegacyExtra
  /\ entries[2].raw = Header4 \o PayloadPlaceholders
  /\ entries[1].billing_code = None
  /\ entries[2].billing_code = None
  /\ self.cost_pages
       = << <<S_unassigned, 250>>, <<<<"f", "r", "o", "n", "t">>, 12>> >>

====
